---- MODULE Spec2Model ----
(***************************************************************************)
(* Stripe Connect Express: the webhook endpoint                            *)
(* src/pages/api/webhooks/stripe.ts and the tables it writes               *)
(* (WebhookEvent, Order, ConnectedAccount of the Prisma migration).        *)
(*                                                                         *)
(* Every request is an independent execution of `handler`.  An execution   *)
(* yields control exactly at its awaited store / provider calls, so each   *)
(* awaited call is one atomic action and the code between two awaits is    *)
(* folded into the action of the call that precedes it.                    *)
(*                                                                         *)
(* A nullable value (null / undefined in the code, NULL in a column) is    *)
(* the empty tuple Nil; a present value v is the one-element tuple <<v>>.  *)
(* A string the code transforms (currency, platformFee) is a tuple of      *)
(* characters, so that the transformation is computed.                     *)
(***************************************************************************)
EXTENDS Integers, Sequences, FiniteSets, TLC

\* ------------------------------------------------------------------------
\* Bounds of the model
\* ------------------------------------------------------------------------
\* number of requests in a run whose executions interleave freely
MaxReq == 2
\* number of requests in a run that delivers them one at a time
MaxDeliveries == 3
\* number of faults (provider call failing, store call failing) in one run
MaxFaults == 1
\* create-account requests of a run
MaxCreate == 2
\* get-account-status requests of a run
MaxSync == 2
\* payment-creating requests of a run
MaxPay == 1

\* ------------------------------------------------------------------------
\* Nullable values
\* ------------------------------------------------------------------------
Nil == <<>>
Some(v) == <<v>>
\* the ?? operator: the left side unless it is null / undefined
Coalesce(x, d) == IF x = Nil THEN d ELSE x[1]

\* ------------------------------------------------------------------------
\* String conversions of the payment_intent.succeeded branch
\* ------------------------------------------------------------------------
UpperOf ==
    [c \in {"j", "p", "y", "u", "s", "d", "J", "P", "Y", "U", "S", "D"} |->
        CASE c = "j" -> "J" [] c = "p" -> "P" [] c = "y" -> "Y"
          [] c = "u" -> "U" [] c = "s" -> "S" [] c = "d" -> "D"
          [] OTHER -> c]

\* String.prototype.toUpperCase
ToUpperCase(s) == [i \in DOMAIN s |-> UpperOf[s[i]]]

DigitOf ==
    [c \in {"0", "1", "2", "3", "4", "5", "6", "7", "8", "9"} |->
        CASE c = "0" -> 0 [] c = "1" -> 1 [] c = "2" -> 2 [] c = "3" -> 3
          [] c = "4" -> 4 [] c = "5" -> 5 [] c = "6" -> 6 [] c = "7" -> 7
          [] c = "8" -> 8 [] c = "9" -> 9]

RECURSIVE DecimalValue(_)
DecimalValue(s) ==
    IF Len(s) = 0 THEN 0
    ELSE 10 * DecimalValue(SubSeq(s, 1, Len(s) - 1)) + DigitOf[s[Len(s)]]

\* Number(string): the value of a decimal string, 0 for the empty string,
\* NaN (here Nil) for anything else
NumberOf(s) ==
    IF \A i \in DOMAIN s : s[i] \in DOMAIN DigitOf
    THEN Some(DecimalValue(s))
    ELSE Nil

\* String(n) of a non-negative integer: its decimal digits
DigitChar ==
    [d \in 0 .. 9 |->
        CASE d = 0 -> "0" [] d = 1 -> "1" [] d = 2 -> "2" [] d = 3 -> "3"
          [] d = 4 -> "4" [] d = 5 -> "5" [] d = 6 -> "6" [] d = 7 -> "7"
          [] d = 8 -> "8" [] d = 9 -> "9"]

RECURSIVE StringOf(_)
StringOf(n) ==
    IF n < 10 THEN <<DigitChar[n]>>
    ELSE Append(StringOf(n \div 10), DigitChar[n % 10])

\* ------------------------------------------------------------------------
\* The provider's side: secrets, events, charges
\* ------------------------------------------------------------------------
WebhookSecret == "whsec_live"
ForgedSecret == "whsec_forged"

PaymentIntent(id, received, amount, currency, buyer, seller, fee, charge) ==
    [id |-> id, amount_received |-> received, amount |-> amount,
     currency |-> currency,
     metadata |-> [buyerId |-> buyer, sellerStripeAccountId |-> seller,
                   platformFee |-> fee],
     latest_charge |-> charge]

\* The events the provider can deliver, by event id.  An event id names one
\* immutable event: every delivery of it carries the same type and payload.
Events ==
    [e \in {"evt_cs", "evt_pi_a", "evt_pi_b", "evt_pi_c", "evt_pi_x",
            "evt_acct", "evt_acct_b", "evt_acct_x", "evt_other"} |->
        CASE e = "evt_cs" ->
               [id |-> e, type |-> "checkout.session.completed",
                object |-> [id |-> Some("cs_1"), payment_intent |-> Some("pi_1")]]
          [] e = "evt_pi_a" ->
               [id |-> e, type |-> "payment_intent.succeeded",
                object |-> PaymentIntent("pi_1", Some(1000), Some(1200),
                              Some(<<"j", "p", "y">>), Some("guest"),
                              Some("acct_1"), Some(<<"1", "0", "0">>),
                              Some("ch_1"))]
          [] e = "evt_pi_b" ->
               [id |-> e, type |-> "payment_intent.succeeded",
                object |-> PaymentIntent("pi_1", Nil, Some(500),
                              Some(<<"U", "s", "d">>), Some("user_b"),
                              Some("acct_1"), Nil, Nil)]
          [] e = "evt_pi_c" ->
               [id |-> e, type |-> "payment_intent.succeeded",
                object |-> PaymentIntent("pi_3", Nil, Nil, Nil, Nil,
                              Some("acct_1"), Some(<<"7">>), Nil)]
          [] e = "evt_pi_x" ->
               [id |-> e, type |-> "payment_intent.succeeded",
                object |-> PaymentIntent("pi_2", Some(300), Some(300),
                              Some(<<"u", "s", "d">>), Nil,
                              Some("acct_9"), Nil, Some("ch_2"))]
          [] e = "evt_acct" ->
               [id |-> e, type |-> "account.updated",
                object |-> [id |-> "acct_1", charges_enabled |-> Some(TRUE),
                            payouts_enabled |-> Nil,
                            details_submitted |-> Some(TRUE),
                            country |-> Some("JP"),
                            default_currency |-> Some("jpy")]]
          [] e = "evt_acct_b" ->
               [id |-> e, type |-> "account.updated",
                object |-> [id |-> "acct_2", charges_enabled |-> Some(FALSE),
                            payouts_enabled |-> Nil,
                            details_submitted |-> Nil,
                            country |-> Nil,
                            default_currency |-> Nil]]
          [] e = "evt_acct_x" ->
               [id |-> e, type |-> "account.updated",
                object |-> [id |-> "acct_9", charges_enabled |-> Some(TRUE),
                            payouts_enabled |-> Some(TRUE),
                            details_submitted |-> Nil,
                            country |-> Nil,
                            default_currency |-> Nil]]
          [] OTHER ->
               [id |-> e, type |-> "charge.refunded", object |-> [id |-> "ch_1"]]]

EventIds == DOMAIN Events

\* what stripe.charges.retrieve answers when it does not fail: the charge's
\* transfer, absent while the transfer is not created yet
ChargeTransfers(chargeId) ==
    IF chargeId = "ch_1" THEN {Nil, Some("tr_1")} ELSE {Nil}

\* the User rows (the webhook endpoint never writes this table)
Users == {"user_s", "user_t", "user_b"}

\* ------------------------------------------------------------------------
\* State
\* ------------------------------------------------------------------------
VARIABLES
    secretEnv,          \* process.env.STRIPE_WEBHOOK_SECRET, Nil when unset
    webhookEvent,       \* table WebhookEvent: a sequence of rows
    order,              \* table Order: a sequence of rows
    connectedAccount,   \* table ConnectedAccount: a sequence of rows
    h,                  \* h[r]: the execution of handler for request r
    clock,              \* what new Date() returns next
    faults,             \* faults that occurred so far
    ca,                 \* ca[r]: the execution of create-account for request r
    stripeAccounts,     \* accounts the provider has created
    gs,                 \* gs[r]: the execution of get-account-status for request r
    co,                 \* co[r]: the execution of a payment-creating endpoint
    payments            \* the payment intents the provider holds

vars == <<secretEnv, webhookEvent, order, connectedAccount, h, clock, faults,
          ca, stripeAccounts, gs, co, payments>>

\* the executions of a run; those of a run of interleaved executions
Reqs == 1 .. (IF MaxDeliveries > MaxReq THEN MaxDeliveries ELSE MaxReq)
Overlapping == 1 .. MaxReq
Delivered == 1 .. MaxDeliveries

CreateReqs == 1 .. MaxCreate
SyncReqs == 1 .. MaxSync
PayReqs == 1 .. MaxPay

\* a request as it arrives: its method, its stripe-signature header and its
\* raw body (the event it serialises).  A signature is the pair of the
\* secret it was computed with and the body it was computed over.
Sign(secret, body) == [secret |-> secret, body |-> body]

Inputs ==
    {[method |-> "POST", sig |-> Some(Sign(WebhookSecret, e)), body |-> e] :
        e \in EventIds}
    \cup
    {[method |-> "GET", sig |-> Nil, body |-> "evt_other"],
     [method |-> "POST", sig |-> Nil, body |-> "evt_other"],
     \* signed with a secret that is not the endpoint's
     [method |-> "POST", sig |-> Some(Sign(ForgedSecret, "evt_pi_a")),
      body |-> "evt_pi_a"],
     \* a genuine signature put on another body
     [method |-> "POST", sig |-> Some(Sign(WebhookSecret, "evt_other")),
      body |-> "evt_pi_a"],
     \* a genuine signature over a body that is no JSON
     [method |-> "POST", sig |-> Some(Sign(WebhookSecret, "not_json")),
      body |-> "not_json"]}

IdleExecution ==
    [pc |-> "idle", req |-> [method |-> "", sig |-> Nil, body |-> ""],
     event |-> "", transferId |-> Nil,
     sellerId |-> Nil, status |-> 0, body |-> "", created |-> FALSE,
     conflict |-> FALSE, writes |-> 0, faulted |-> ""]

SeedAccount ==
    [id |-> 1, userId |-> "user_s", stripeAccountId |-> "acct_1",
     chargesEnabled |-> FALSE, payoutsEnabled |-> FALSE,
     detailsSubmitted |-> FALSE, onboardingCompletedAt |-> Nil,
     country |-> Nil, defaultCurrency |-> Nil]

\* a second seller, onboarded
SeedAccountOnboarded ==
    [id |-> 2, userId |-> "user_t", stripeAccountId |-> "acct_2",
     chargesEnabled |-> TRUE, payoutsEnabled |-> TRUE,
     detailsSubmitted |-> TRUE, onboardingCompletedAt |-> Some(0),
     country |-> Some("US"), defaultCurrency |-> Some("usd")]

\* a create-account request: its method and the userId of its JSON body
CreateInputs ==
    {[method |-> "POST", userId |-> Some(u)] :
        u \in {"user_s", "user_b", "user_z", ""}}
    \cup
    {[method |-> "POST", userId |-> Nil],
     [method |-> "GET", userId |-> Some("user_b")]}

IdleCreate ==
    [pc |-> "idle", req |-> [method |-> "", userId |-> Nil], userId |-> "",
     account |-> Nil, status |-> 0, body |-> "", stripeAccountId |-> Nil,
     reused |-> FALSE, had |-> {}, faulted |-> FALSE]

\* a get-account-status request: its method and its query parameters
SyncInputs ==
    {[method |-> "GET", userId |-> Some("user_s"), stripeAccountId |-> Nil],
     [method |-> "GET", userId |-> Some("user_b"), stripeAccountId |-> Nil],
     [method |-> "GET", userId |-> Nil, stripeAccountId |-> Some("acct_2")],
     \* an account id the provider does not know
     [method |-> "GET", userId |-> Nil, stripeAccountId |-> Some("acct_9")],
     [method |-> "GET", userId |-> Nil, stripeAccountId |-> Nil],
     [method |-> "POST", userId |-> Some("user_s"), stripeAccountId |-> Nil]}

IdleSync ==
    [pc |-> "idle",
     req |-> [method |-> "", userId |-> Nil, stripeAccountId |-> Nil],
     stripeAccountId |-> "", account |-> Nil, status |-> 0, body |-> ""]

\* a request to a payment-creating endpoint: the endpoint (checkout.ts, its
\* older revision part_004, or creates.ts), the method and the JSON body.
\* urls says whether the body carries successUrl and cancelUrl; amount and
\* currency are read by creates.ts only, priceId and quantity by the checkout
\* endpoints only.
PayBody(userId, stripeAccountId, buyerId, priceId, quantity, feePercent, urls) ==
    [userId |-> userId, stripeAccountId |-> stripeAccountId,
     buyerId |-> buyerId, priceId |-> priceId, quantity |-> quantity,
     feePercent |-> feePercent, urls |-> urls,
     amount |-> Nil, currency |-> Nil]

IntentBody(userId, stripeAccountId, buyerId, amount, currency) ==
    [userId |-> userId, stripeAccountId |-> stripeAccountId,
     buyerId |-> buyerId, priceId |-> Nil, quantity |-> Nil,
     feePercent |-> Nil, urls |-> FALSE,
     amount |-> amount, currency |-> currency]

CheckoutInputs ==
    {[endpoint |-> ep, method |-> "POST",
      body |-> PayBody(Some("user_t"), Nil, b, Some("price_a"), Nil, Nil, FALSE)] :
        ep \in {"checkout", "part_004"},
        \* no buyer, a User, the literal "guest", an id that is no User
        b \in {Nil, Some("user_b"), Some("guest"), Some("user_z")}}
    \cup
    {[endpoint |-> ep, method |-> "POST", body |-> b] :
        ep \in {"checkout", "part_004"},
        b \in {\* a user without a ConnectedAccount row
               PayBody(Some("user_b"), Nil, Nil, Some("price_a"), Nil, Nil, FALSE),
               \* the seller named by account id
               PayBody(Nil, Some("acct_1"), Some("user_b"), Some("price_a"),
                       Nil, Nil, FALSE),
               \* an account id the provider does not know
               PayBody(Nil, Some("acct_9"), Nil, Some("price_a"), Nil, Nil, FALSE),
               \* neither id
               PayBody(Nil, Nil, Nil, Some("price_a"), Nil, Nil, FALSE),
               \* prices without an amount, a price the provider does not know
               PayBody(Some("user_t"), Nil, Nil, Some("price_free"), Nil, Nil, FALSE),
               PayBody(Some("user_t"), Nil, Nil, Some("price_custom"), Nil, Nil, FALSE),
               PayBody(Some("user_t"), Nil, Nil, Some("price_9"), Nil, Nil, FALSE),
               \* fields the schema refuses
               PayBody(Some("user_t"), Nil, Nil, Some("price_a"), Some(0), Nil, FALSE),
               PayBody(Some("user_t"), Nil, Some(""), Some("price_a"), Nil, Nil, FALSE),
               \* quantity, fee and redirect URLs given
               PayBody(Some("user_t"), Nil, Some("user_b"), Some("price_a"),
                       Some(2), Some(25), TRUE),
               PayBody(Some("user_t"), Nil, Nil, Some("price_a"),
                       Some(3), Some(0), FALSE)}}
    \cup
    {[endpoint |-> ep, method |-> "GET",
      body |-> PayBody(Some("user_t"), Nil, Nil, Some("price_a"), Nil, Nil, FALSE)] :
        ep \in {"checkout", "part_004"}}

CreatesInputs ==
    {[endpoint |-> "creates", method |-> "POST",
      body |-> IntentBody(Some("user_t"), Nil, b, Some(1500), Some(<<"u", "s", "d">>))] :
        b \in {Nil, Some(""), Some("user_b"), Some("guest")}}
    \cup
    {[endpoint |-> "creates", method |-> m, body |-> b] :
        m \in {"POST"},
        b \in {IntentBody(Some("user_b"), Nil, Nil, Some(1500), Some(<<"u", "s", "d">>)),
               IntentBody(Nil, Some("acct_9"), Nil, Some(1500), Some(<<"u", "s", "d">>)),
               IntentBody(Nil, Nil, Nil, Some(1500), Some(<<"u", "s", "d">>)),
               IntentBody(Some("user_t"), Nil, Nil, Some(0), Some(<<"u", "s", "d">>)),
               IntentBody(Some("user_t"), Nil, Nil, Some(1500), Some(<<"u", "s">>))}}
    \cup
    {[endpoint |-> "creates", method |-> "GET",
      body |-> IntentBody(Some("user_t"), Nil, Nil, Some(1500), Some(<<"u", "s", "d">>))]}

PayInputs == CheckoutInputs \cup CreatesInputs

\* an execution of a payment-creating endpoint: calls lists the awaited calls
\* it made so far, in order
IdleCheckout ==
    [pc |-> "idle",
     req |-> [endpoint |-> "", method |-> "",
              body |-> PayBody(Nil, Nil, Nil, Nil, Nil, Nil, FALSE)],
     data |-> PayBody(Nil, Nil, Nil, Nil, Nil, Nil, FALSE),
     sellerAcct |-> "", account |-> Nil, price |-> Nil, applicationFee |-> 0,
     calls |-> <<>>, status |-> 0, body |-> ""]

\* a payment intent as the provider holds it: the request and the endpoint
\* that created it, the buyerId its request carried, the application fee it was created with
\* and the object its payment_intent.succeeded event carries; handled is the
\* status of the last delivery of that event, 0 before the first
Payment(n, by, endpoint, asked, amount, currency, fee, metadata) ==
    [id |-> "pi_" \o ToString(100 + n), by |-> by, endpoint |-> endpoint,
     asked |-> asked, fee |-> fee, handled |-> 0,
     pi |-> [id |-> "pi_" \o ToString(100 + n),
             amount_received |-> Some(amount), amount |-> Some(amount),
             currency |-> Some(currency), metadata |-> metadata,
             latest_charge |-> Some("ch_" \o ToString(100 + n))]]

\* a payment intent of the platform that carries no platformFee and no
\* buyerId in its metadata (line 110 reads such a payment as fee "0")
LegacyPayment ==
    Payment(1, 0, "legacy", Nil, 700, <<"u", "s", "d">>, Nil,
            [buyerId |-> Nil, sellerStripeAccountId |-> Some("acct_2"),
             platformFee |-> Nil])

Init ==
    /\ co = [r \in PayReqs |-> IdleCheckout]
    /\ payments = <<LegacyPayment>>
    /\ gs = [r \in SyncReqs |-> IdleSync]
    /\ ca = [r \in CreateReqs |-> IdleCreate]
    /\ stripeAccounts = 0
    /\ secretEnv \in {Some(WebhookSecret), Nil}
    /\ webhookEvent = <<>>
    /\ order = <<>>
    /\ connectedAccount = <<SeedAccount, SeedAccountOnboarded>>
    /\ h = [r \in Reqs |-> IdleExecution]
    /\ clock = 1
    /\ faults = 0

\* ------------------------------------------------------------------------
\* The store: point lookups, inserts and updates under the unique indexes
\* ------------------------------------------------------------------------
Rows(tbl) == {tbl[i] : i \in DOMAIN tbl}

\* the dedup lookup left out: no event is ever found
WebhookEventFindNone(tbl, eventId) == Nil

\* the dedup lookup narrowed to events still waiting to be processed
WebhookEventFindUnprocessed(tbl, eventId) ==
    IF \E i \in DOMAIN tbl : tbl[i].stripeEventId = eventId /\ tbl[i].processedAt = Nil
    THEN Some(tbl[CHOOSE i \in DOMAIN tbl :
                      tbl[i].stripeEventId = eventId /\ tbl[i].processedAt = Nil])
    ELSE Nil

\* prisma.webhookEvent.findUnique({ where: { stripeEventId } })
WebhookEventFindUnique(tbl, eventId) ==
    IF \E i \in DOMAIN tbl : tbl[i].stripeEventId = eventId
    THEN Some(tbl[CHOOSE i \in DOMAIN tbl : tbl[i].stripeEventId = eventId])
    ELSE Nil

\* the insert without the unique index on stripeEventId
WebhookEventCreateNoIndex(tbl, row) == [ok |-> TRUE, table |-> Append(tbl, row)]

\* the insert reported as done without a row being written
WebhookEventCreateSkipped(tbl, row) == [ok |-> TRUE, table |-> tbl]

\* the insert that writes the row as already processed
WebhookEventCreateProcessed(tbl, row) ==
    IF \E i \in DOMAIN tbl : tbl[i].stripeEventId = row.stripeEventId
    THEN [ok |-> FALSE, table |-> tbl]
    ELSE [ok |-> TRUE, table |-> Append(tbl, [row EXCEPT !.processedAt = Some(0)])]

\* prisma.webhookEvent.create under WebhookEvent_stripeEventId_key: the
\* insert is refused (P2002) when a row with the event id exists
WebhookEventCreate(tbl, row) ==
    IF \E i \in DOMAIN tbl : tbl[i].stripeEventId = row.stripeEventId
    THEN [ok |-> FALSE, table |-> tbl]
    ELSE [ok |-> TRUE, table |-> Append(tbl, row)]

\* the update of processedAt left out
WebhookEventMarkNothing(tbl, eventId, now) == tbl

\* the update of processedAt without its where clause
WebhookEventMarkAll(tbl, eventId, now) ==
    [i \in DOMAIN tbl |-> [tbl[i] EXCEPT !.processedAt = Some(now)]]

\* prisma.webhookEvent.update({ where: { stripeEventId }, data: { processedAt } })
WebhookEventMarkProcessed(tbl, eventId, now) ==
    [i \in DOMAIN tbl |->
        IF tbl[i].stripeEventId = eventId
        THEN [tbl[i] EXCEPT !.processedAt = Some(now)]
        ELSE tbl[i]]

\* prisma.connectedAccount.findUnique({ where: { stripeAccountId }, select: { id } })
ConnectedAccountFindUnique(tbl, stripeAccountId) ==
    IF \E i \in DOMAIN tbl : tbl[i].stripeAccountId = stripeAccountId
    THEN Some(tbl[CHOOSE i \in DOMAIN tbl :
                      tbl[i].stripeAccountId = stripeAccountId].id)
    ELSE Nil

\* prisma.order.update({ where: { paymentIntentId }, data: { checkoutSessionId } })
\* refused when no row has the payment-intent id (P2025) and when another
\* row holds the session id (Order_checkoutSessionId_key)
OrderUpdateSession(tbl, piId, sessionId) ==
    IF /\ \E i \in DOMAIN tbl : tbl[i].paymentIntentId = piId
       /\ ~ \E i \in DOMAIN tbl : /\ tbl[i].paymentIntentId # piId
                                  /\ tbl[i].checkoutSessionId = Some(sessionId)
    THEN [ok |-> TRUE,
          table |-> [i \in DOMAIN tbl |->
                        IF tbl[i].paymentIntentId = piId
                        THEN [tbl[i] EXCEPT !.checkoutSessionId = Some(sessionId)]
                        ELSE tbl[i]]]
    ELSE [ok |-> FALSE, table |-> tbl]

\* the requested amount preferred to the amount received
PaymentIntentAmountRequested(pi) ==
    Coalesce(pi.amount, Coalesce(pi.amount_received, 0))

\* a missing amount recorded as -1
PaymentIntentAmountSentinel(pi) ==
    Coalesce(pi.amount_received, Coalesce(pi.amount, 0 - 1))

\* the Order columns the upsert writes, from the payment intent (lines 101-110)
\* and from what the execution learned (transferId, seller)
PaymentIntentAmount(pi) == Coalesce(pi.amount_received, Coalesce(pi.amount, 0))

PaymentIntentCurrency(pi) == ToUpperCase(Coalesce(pi.currency, <<"u", "s", "d">>))

\* metadata?.buyerId || null, then "guest" read as no buyer
PaymentIntentBuyerId(pi) ==
    LET rawBuyerId == IF pi.metadata.buyerId \in {Nil, Some("")}
                      THEN Nil ELSE pi.metadata.buyerId
    IN  IF rawBuyerId # Nil /\ rawBuyerId # Some("guest") THEN rawBuyerId ELSE Nil

\* metadata?.sellerStripeAccountId || ""
PaymentIntentSellerAcct(pi) == Coalesce(pi.metadata.sellerStripeAccountId, "")

\* the fee read as if the metadata carried none
PaymentIntentPlatformFeeDefault(pi) ==
    NumberOf(<<"0">>)

\* Number(metadata?.platformFee ?? "0")
PaymentIntentPlatformFee(pi) ==
    NumberOf(Coalesce(pi.metadata.platformFee, <<"0">>))

\* create in place of upsert, on a table without the payment-intent index
OrderInsert(tbl, accounts, pi, sellerId, transferId) ==
    [ok |-> TRUE,
     table |-> Append(tbl,
        [id |-> Len(tbl) + 1, buyerId |-> Nil, sellerAccountId |-> sellerId,
         paymentIntentId |-> pi.id, checkoutSessionId |-> Nil,
         transferId |-> transferId, chargeId |-> Nil,
         amount |-> Coalesce(pi.amount_received, Coalesce(pi.amount, 0)),
         platformFee |-> 0, currency |-> Coalesce(pi.currency, <<"u", "s", "d">>),
         status |-> "paid", paymentState |-> "processing",
         amountRefunded |-> 0])]

\* update in place of upsert: the Order is expected to exist already
OrderUpdateOnly(tbl, accounts, pi, sellerId, transferId) ==
    IF \E i \in DOMAIN tbl : tbl[i].paymentIntentId = pi.id
    THEN [ok |-> TRUE,
          table |-> [i \in DOMAIN tbl |->
             IF tbl[i].paymentIntentId = pi.id
             THEN [tbl[i] EXCEPT
                     !.amount = Coalesce(pi.amount_received, Coalesce(pi.amount, 0)),
                     !.status = "paid"]
             ELSE tbl[i]]]
    ELSE [ok |-> FALSE, table |-> tbl]

\* the upsert whose update branch adds the amount to the one recorded
OrderUpsertIncrement(tbl, accounts, pi, sellerId, transferId) ==
    LET fee == PaymentIntentPlatformFee(pi)
        buyerId == PaymentIntentBuyerId(pi)
        exists == \E i \in DOMAIN tbl : tbl[i].paymentIntentId = pi.id
    IN  IF \/ fee = Nil
           \/ ~exists /\ buyerId # Nil /\ buyerId[1] \notin Users
           \/ ~exists /\ ~ \E a \in Rows(accounts) : a.id = sellerId
        THEN [ok |-> FALSE, table |-> tbl]
        ELSE IF exists
        THEN [ok |-> TRUE,
              table |-> [i \in DOMAIN tbl |->
                 IF tbl[i].paymentIntentId = pi.id
                 THEN [tbl[i] EXCEPT !.amount = @ + PaymentIntentAmount(pi),
                                     !.platformFee = @ + Coalesce(fee, 0),
                                     !.currency = PaymentIntentCurrency(pi),
                                     !.status = "paid"]
                 ELSE tbl[i]]]
        ELSE [ok |-> TRUE,
              table |-> Append(tbl,
                 [id |-> Len(tbl) + 1, buyerId |-> buyerId,
                  sellerAccountId |-> sellerId, paymentIntentId |-> pi.id,
                  checkoutSessionId |-> Nil, transferId |-> transferId,
                  chargeId |-> Nil, amount |-> PaymentIntentAmount(pi),
                  platformFee |-> Coalesce(fee, 0),
                  currency |-> PaymentIntentCurrency(pi), status |-> "paid",
                  paymentState |-> "processing", amountRefunded |-> 0])]

\* the upsert on a table without the foreign key to ConnectedAccount
OrderUpsertNoSellerKey(tbl, accounts, pi, sellerId, transferId) ==
    LET fee == PaymentIntentPlatformFee(pi)
        buyerId == PaymentIntentBuyerId(pi)
        exists == \E i \in DOMAIN tbl : tbl[i].paymentIntentId = pi.id
    IN  IF fee = Nil \/ (~exists /\ buyerId # Nil /\ buyerId[1] \notin Users)
        THEN [ok |-> FALSE, table |-> tbl]
        ELSE IF exists
        THEN [ok |-> TRUE,
              table |-> [i \in DOMAIN tbl |->
                 IF tbl[i].paymentIntentId = pi.id
                 THEN [tbl[i] EXCEPT !.amount = PaymentIntentAmount(pi),
                                     !.platformFee = Coalesce(fee, 0),
                                     !.currency = PaymentIntentCurrency(pi),
                                     !.status = "paid"]
                 ELSE tbl[i]]]
        ELSE [ok |-> TRUE,
              table |-> Append(tbl,
                 [id |-> Len(tbl) + 1, buyerId |-> buyerId,
                  sellerAccountId |-> sellerId, paymentIntentId |-> pi.id,
                  checkoutSessionId |-> Nil, transferId |-> transferId,
                  chargeId |-> Nil, amount |-> PaymentIntentAmount(pi),
                  platformFee |-> Coalesce(fee, 0),
                  currency |-> PaymentIntentCurrency(pi), status |-> "paid",
                  paymentState |-> "processing", amountRefunded |-> 0])]

\* the upsert whose update branch writes every column of the create branch
OrderUpsertOverwrite(tbl, accounts, pi, sellerId, transferId) ==
    LET fee == PaymentIntentPlatformFee(pi)
        exists == \E i \in DOMAIN tbl : tbl[i].paymentIntentId = pi.id
        written(id) ==
            [id |-> id, buyerId |-> PaymentIntentBuyerId(pi),
             sellerAccountId |-> sellerId, paymentIntentId |-> pi.id,
             checkoutSessionId |-> Nil, transferId |-> transferId,
             chargeId |-> Nil, amount |-> PaymentIntentAmount(pi),
             platformFee |-> Coalesce(fee, 0),
             currency |-> PaymentIntentCurrency(pi), status |-> "paid",
             paymentState |-> "processing", amountRefunded |-> 0]
    IN  IF fee = Nil THEN [ok |-> FALSE, table |-> tbl]
        ELSE IF exists
        THEN [ok |-> TRUE,
              table |-> [i \in DOMAIN tbl |->
                            IF tbl[i].paymentIntentId = pi.id
                            THEN written(tbl[i].id) ELSE tbl[i]]]
        ELSE [ok |-> TRUE, table |-> Append(tbl, written(Len(tbl) + 1))]

\* prisma.order.upsert({ where: { paymentIntentId }, create, update }): one
\* atomic statement (INSERT ... ON CONFLICT on Order_paymentIntentId_key).
\* Refused when platformFee is not an integer, when the buyer is no User row
\* (Order_buyerId_fkey), when the seller is no ConnectedAccount row
\* (Order_sellerAccountId_fkey), and when another row holds the transfer id
\* (Order_transferId_key).  An undefined transferId leaves the column alone
\* on update and NULL on create.
OrderUpsert(tbl, accounts, pi, sellerId, transferId) ==
    LET fee == PaymentIntentPlatformFee(pi)
        buyerId == PaymentIntentBuyerId(pi)
        exists == \E i \in DOMAIN tbl : tbl[i].paymentIntentId = pi.id
        created ==
            [id |-> Len(tbl) + 1, buyerId |-> buyerId,
             sellerAccountId |-> sellerId, paymentIntentId |-> pi.id,
             checkoutSessionId |-> Nil, transferId |-> transferId,
             chargeId |-> Nil, amount |-> PaymentIntentAmount(pi),
             platformFee |-> Coalesce(fee, 0),
             currency |-> PaymentIntentCurrency(pi), status |-> "paid",
             paymentState |-> "processing", amountRefunded |-> 0]
        updated(row) ==
            [row EXCEPT !.amount = PaymentIntentAmount(pi),
                        !.platformFee = Coalesce(fee, 0),
                        !.currency = PaymentIntentCurrency(pi),
                        !.transferId = IF transferId = Nil THEN @ ELSE transferId,
                        !.status = "paid"]
        refused ==
            \/ fee = Nil
            \/ ~exists /\ buyerId # Nil /\ buyerId[1] \notin Users
            \/ ~exists /\ ~ \E a \in Rows(accounts) : a.id = sellerId
            \/ /\ transferId # Nil
               /\ \E i \in DOMAIN tbl : /\ tbl[i].paymentIntentId # pi.id
                                        /\ tbl[i].transferId = transferId
    IN  IF refused THEN [ok |-> FALSE, table |-> tbl]
        ELSE IF exists
        THEN [ok |-> TRUE,
              table |-> [i \in DOMAIN tbl |->
                            IF tbl[i].paymentIntentId = pi.id
                            THEN updated(tbl[i]) ELSE tbl[i]]]
        ELSE [ok |-> TRUE, table |-> Append(tbl, created)]

\* Boolean(x) of an optional flag
BooleanOf(x) == Coalesce(x, FALSE)

\* the update that writes the flags and leaves onboardingCompletedAt alone
ConnectedAccountUpdateFlags(tbl, account, now) ==
    IF \E i \in DOMAIN tbl : tbl[i].stripeAccountId = account.id
    THEN [ok |-> TRUE,
          table |-> [i \in DOMAIN tbl |->
             IF tbl[i].stripeAccountId = account.id
             THEN [tbl[i] EXCEPT
                     !.chargesEnabled = BooleanOf(account.charges_enabled),
                     !.payoutsEnabled = BooleanOf(account.payouts_enabled),
                     !.detailsSubmitted = BooleanOf(account.details_submitted)]
             ELSE tbl[i]]]
    ELSE [ok |-> FALSE, table |-> tbl]

\* prisma.connectedAccount.update({ where: { stripeAccountId }, data }):
\* refused (P2025) when no row has the account id
ConnectedAccountUpdate(tbl, account, now) ==
    IF \E i \in DOMAIN tbl : tbl[i].stripeAccountId = account.id
    THEN [ok |-> TRUE,
          table |-> [i \in DOMAIN tbl |->
             IF tbl[i].stripeAccountId = account.id
             THEN [tbl[i] EXCEPT
                     !.chargesEnabled = BooleanOf(account.charges_enabled),
                     !.payoutsEnabled = BooleanOf(account.payouts_enabled),
                     !.detailsSubmitted = BooleanOf(account.details_submitted),
                     !.onboardingCompletedAt =
                         IF BooleanOf(account.details_submitted)
                         THEN Some(now) ELSE Nil,
                     !.country = account.country,
                     !.defaultCurrency = account.default_currency]
             ELSE tbl[i]]]
    ELSE [ok |-> FALSE, table |-> tbl]

\* ------------------------------------------------------------------------
\* handler
\* ------------------------------------------------------------------------
\* stripe.webhooks.constructEvent: returns the event the body serialises when
\* the signature was computed with the secret over this body and the body
\* parses; throws otherwise
constructEvent(buf, sig, secret) ==
    IF ~(sig.secret = secret /\ sig.body = buf)
    THEN [threw |-> TRUE,
          message |-> "No signatures found matching the expected signature"]
    ELSE IF buf \notin EventIds
    THEN [threw |-> TRUE, message |-> "Unexpected token in JSON"]
    ELSE [threw |-> FALSE, value |-> Events[buf]]

\* the body parsed without the signature check
constructEventUnverified(buf, sig, secret) ==
    IF buf \in EventIds THEN [ok |-> TRUE, event |-> Events[buf]]
    ELSE [ok |-> FALSE, message |-> "Unexpected token in JSON"]

\* constructEvent without the try / catch: what it throws leaves the function
constructEventUncaught(buf, sig, secret) ==
    LET res == constructEvent(buf, sig, secret)
    IN  IF res.threw THEN res ELSE [ok |-> TRUE, event |-> res.value]

\* lines 23-36: constructEvent inside try / catch, its outcome as a tagged
\* result
constructEventSafe(buf, sig, secret) ==
    LET res == constructEvent(buf, sig, secret)
    IN  IF res.threw THEN [ok |-> FALSE, message |-> res.message]
        ELSE [ok |-> TRUE, event |-> res.value]

\* res.status(status).json(body): the execution ends
Respond(r, status, body) ==
    [h EXCEPT ![r].pc = "done", ![r].status = status, ![r].body = body]

\* a call that can fail does so while the run's fault budget lasts.  The
\* calls that fail in this model are those of the event's branch: the charge
\* lookup and the Order / ConnectedAccount writes.  The ledger calls (lines
\* 66, 72, 186) fail only on the unique index.
FaultChoices == IF faults < MaxFaults THEN {FALSE, TRUE} ELSE {FALSE}

\* the first awaited call of the event's branch of the switch
Dispatch(event) ==
    CASE event.type = "checkout.session.completed" ->
           IF event.object.payment_intent # Nil /\ event.object.id # Nil
           THEN "orderUpdate" ELSE "mark"
      [] event.type = "payment_intent.succeeded" ->
           IF event.object.latest_charge # Nil
           THEN "chargesRetrieve" ELSE "findSeller"
      [] event.type = "account.updated" -> "accountUpdate"
      [] OTHER -> "mark"

\* lines 39-63: method, header, secret and signature checks
HandlerVerify(r, input) ==
    /\ h[r].pc = "idle"
    /\ \A q \in Reqs : q < r => h[q].pc # "idle"
    /\ h' =
         [IF input.method # "POST"
          THEN Respond(r, 405, "Method Not Allowed")
          ELSE IF input.sig = Nil
          THEN Respond(r, 400, "Missing stripe-signature header")
          ELSE IF secretEnv = Nil
          THEN Respond(r, 500, "Missing STRIPE_WEBHOOK_SECRET")
          ELSE LET verified == constructEventSafe(input.body, input.sig[1], secretEnv[1])
               IN  IF "threw" \in DOMAIN verified
                   \* line 59 is outside the try block
                   THEN Respond(r, 500, "uncaught")
                   ELSE IF ~verified.ok
                   THEN Respond(r, 400, "Signature verification failed")
                   ELSE [h EXCEPT ![r].pc = "findSeen",
                                  ![r].event = verified.event.id]
          EXCEPT ![r].req = input]
    /\ UNCHANGED <<ca, stripeAccounts, co, payments, gs, secretEnv, webhookEvent, order, connectedAccount, clock, faults>>

\* lines 66-69: the dedup lookup
HandlerFindSeen(r) ==
    /\ h[r].pc = "findSeen"
    /\ h' = IF WebhookEventFindUnique(webhookEvent, h[r].event) # Nil
            THEN Respond(r, 200, "duplicate")
            ELSE [h EXCEPT ![r].pc = "create"]
    /\ UNCHANGED <<ca, stripeAccounts, co, payments, gs, secretEnv, webhookEvent, order, connectedAccount, clock, faults>>

\* lines 72-77: the ledger insert, outside the try block: a refused insert
\* rejects the handler's promise and the framework answers 500.  The payload
\* column takes toJson(event); the event was itself parsed from JSON, which
\* JSON.parse(JSON.stringify(.)) gives back as it is.
HandlerCreateEvent(r) ==
    /\ h[r].pc = "create"
    /\ LET event == Events[h[r].event]
           res == WebhookEventCreate(webhookEvent,
                     [stripeEventId |-> event.id, type |-> event.type,
                      payload |-> event, processedAt |-> Nil])
       IN  /\ webhookEvent' = res.table
           /\ h' = IF res.ok
                   THEN [h EXCEPT ![r].pc = Dispatch(event), ![r].created = TRUE]
                   ELSE [Respond(r, 500, "uncaught") EXCEPT ![r].conflict = TRUE]
    /\ UNCHANGED <<ca, stripeAccounts, co, payments, gs, secretEnv, order, connectedAccount, clock, faults>>

\* the Order update without its .catch: a rejection reaches the handler's
\* catch
CheckoutSessionCompletedUncaught(r) ==
    /\ h[r].pc = "orderUpdate"
    /\ LET session == Events[h[r].event].object
           res == OrderUpdateSession(order, session.payment_intent[1], session.id[1])
       IN  /\ order' = res.table
           /\ h' = IF res.ok
                   THEN [h EXCEPT ![r].pc = "mark", ![r].writes = @ + 1]
                   ELSE Respond(r, 500, "Webhook processing failed")
    /\ UNCHANGED <<ca, stripeAccounts, co, payments, gs, secretEnv, webhookEvent, connectedAccount, clock, faults>>

\* lines 86-95: attach the session id; .catch swallows every rejection
CheckoutSessionCompleted(r) ==
    /\ h[r].pc = "orderUpdate"
    /\ \E fault \in FaultChoices :
         LET session == Events[h[r].event].object
             res == IF fault THEN [ok |-> FALSE, table |-> order]
                    ELSE OrderUpdateSession(order, session.payment_intent[1],
                                            session.id[1])
         IN  /\ order' = res.table
             /\ faults' = IF fault THEN faults + 1 ELSE faults
             /\ h' = [h EXCEPT ![r].pc = "mark",
                               ![r].writes = IF res.ok THEN @ + 1 ELSE @,
                               ![r].faulted = IF fault THEN "orderUpdate" ELSE @]
    /\ UNCHANGED <<ca, stripeAccounts, co, payments, gs, secretEnv, webhookEvent, connectedAccount, clock>>

\* lines 116-122: stripe.charges.retrieve, not caught locally: a failure
\* reaches the handler's catch (lines 192-196)
PaymentIntentChargeRetrieve(r) ==
    /\ h[r].pc = "chargesRetrieve"
    /\ \E fault \in FaultChoices :
         \E transfer \in ChargeTransfers(Events[h[r].event].object.latest_charge[1]) :
            /\ faults' = IF fault THEN faults + 1 ELSE faults
            /\ h' = IF fault
                    THEN [Respond(r, 500, "Webhook processing failed")
                             EXCEPT ![r].faulted = "chargesRetrieve"]
                    ELSE [h EXCEPT ![r].pc = "findSeller",
                                   ![r].transferId = transfer]
    /\ UNCHANGED <<ca, stripeAccounts, co, payments, gs, secretEnv, webhookEvent, order, connectedAccount, clock>>

\* lines 125-129: resolve the seller; none: leave the switch
PaymentIntentFindSeller(r) ==
    /\ h[r].pc = "findSeller"
    /\ LET seller == ConnectedAccountFindUnique(connectedAccount,
                        PaymentIntentSellerAcct(Events[h[r].event].object))
       IN  h' = IF seller = Nil
                THEN [h EXCEPT ![r].pc = "mark"]
                ELSE [h EXCEPT ![r].pc = "orderUpsert", ![r].sellerId = seller]
    /\ UNCHANGED <<ca, stripeAccounts, co, payments, gs, secretEnv, webhookEvent, order, connectedAccount, clock, faults>>

\* lines 132-154: upsert the Order; a rejection reaches the handler's catch
PaymentIntentUpsert(r) ==
    /\ h[r].pc = "orderUpsert"
    /\ \E fault \in FaultChoices :
         LET res == IF fault THEN [ok |-> FALSE, table |-> order]
                    ELSE OrderUpsert(order, connectedAccount,
                                     Events[h[r].event].object,
                                     h[r].sellerId[1], h[r].transferId)
         IN  /\ order' = res.table
             /\ faults' = IF fault THEN faults + 1 ELSE faults
             /\ h' = IF res.ok
                     THEN [h EXCEPT ![r].pc = "mark", ![r].writes = @ + 1]
                     ELSE [Respond(r, 500, "Webhook processing failed")
                              EXCEPT ![r].faulted = IF fault THEN "orderUpsert" ELSE @]
    /\ UNCHANGED <<ca, stripeAccounts, co, payments, gs, secretEnv, webhookEvent, connectedAccount, clock>>

\* lines 159-177: mirror the account; .catch swallows every rejection
AccountUpdated(r) ==
    /\ h[r].pc = "accountUpdate"
    /\ \E fault \in FaultChoices :
         LET account == Events[h[r].event].object
             res == IF fault THEN [ok |-> FALSE, table |-> connectedAccount]
                    ELSE ConnectedAccountUpdate(connectedAccount, account, clock)
         IN  /\ connectedAccount' = res.table
             /\ faults' = IF fault THEN faults + 1 ELSE faults
             /\ clock' = IF BooleanOf(account.details_submitted)
                         THEN clock + 1 ELSE clock
             /\ h' = [h EXCEPT ![r].pc = "mark",
                               ![r].writes = IF res.ok THEN @ + 1 ELSE @,
                               ![r].faulted = IF fault THEN "accountUpdate" ELSE @]
    /\ UNCHANGED <<ca, stripeAccounts, co, payments, gs, secretEnv, webhookEvent, order>>

\* the acknowledgment sent without the processedAt update
HandlerAcknowledgeOnly(r) ==
    /\ h[r].pc = "mark"
    /\ h' = Respond(r, 200, "received")
    /\ UNCHANGED <<ca, stripeAccounts, co, payments, gs, secretEnv, webhookEvent, order,
                   connectedAccount, clock, faults>>

\* lines 186-191: mark the event processed and acknowledge
HandlerMarkProcessed(r) ==
    /\ h[r].pc = "mark"
    /\ webhookEvent' = WebhookEventMarkProcessed(webhookEvent, h[r].event, clock)
    /\ clock' = clock + 1
    /\ h' = Respond(r, 200, "received")
    /\ UNCHANGED <<ca, stripeAccounts, co, payments, gs, secretEnv, order, connectedAccount, faults>>

Step(r) ==
    \/ HandlerFindSeen(r)
    \/ HandlerCreateEvent(r)
    \/ CheckoutSessionCompleted(r)
    \/ PaymentIntentChargeRetrieve(r)
    \/ PaymentIntentFindSeller(r)
    \/ PaymentIntentUpsert(r)
    \/ AccountUpdated(r)
    \/ HandlerMarkProcessed(r)

\* requests arrive at any time and their executions interleave
Next ==
    \/ \E r \in Overlapping, input \in Inputs : HandlerVerify(r, input)
    \/ \E r \in Reqs : Step(r)

Spec == Init /\ [][Next]_vars

\* one delivery at a time: a request arrives when no execution is running
Quiet == \A r \in Reqs : h[r].pc \in {"idle", "done"}

SeqNext ==
    \/ \E r \in Delivered, input \in Inputs : Quiet /\ HandlerVerify(r, input)
    \/ \E r \in Reqs : Step(r)

SeqSpec == Init /\ [][SeqNext]_vars

\* ------------------------------------------------------------------------
\* The switch of lines 77-183 run on its own, one event after the other
\* ------------------------------------------------------------------------
\* line 77: the switch is entered for event e
BranchEnter(r, e) ==
    /\ h[r].pc = "idle"
    /\ \A q \in Reqs : q < r => h[q].pc # "idle"
    /\ h' = [h EXCEPT ![r].pc = Dispatch(Events[e]), ![r].event = e]
    /\ UNCHANGED <<ca, stripeAccounts, co, payments, gs, secretEnv, webhookEvent, order,
                   connectedAccount, clock, faults>>

\* line 183: the switch is left
BranchLeave(r) ==
    /\ h[r].pc = "mark"
    /\ h' = [h EXCEPT ![r].pc = "done"]
    /\ UNCHANGED <<ca, stripeAccounts, co, payments, gs, secretEnv, webhookEvent, order,
                   connectedAccount, clock, faults>>

RerunNext ==
    \/ \E r \in Delivered, e \in EventIds : Quiet /\ BranchEnter(r, e)
    \/ \E r \in Reqs : CheckoutSessionCompleted(r)
    \/ \E r \in Reqs : PaymentIntentChargeRetrieve(r)
    \/ \E r \in Reqs : PaymentIntentFindSeller(r)
    \/ \E r \in Reqs : PaymentIntentUpsert(r)
    \/ \E r \in Reqs : AccountUpdated(r)
    \/ \E r \in Reqs : BranchLeave(r)

RerunSpec == Init /\ [][RerunNext]_vars

\* ------------------------------------------------------------------------
\* Payment events while ConnectedAccount rows are deleted
\* ------------------------------------------------------------------------
\* DELETE FROM "ConnectedAccount" WHERE id = ..., issued outside the handler
\* (directly, or by the cascade of ConnectedAccount_userId_fkey when the
\* User is deleted): refused while an Order refers to the row
\* (Order_sellerAccountId_fkey, ON DELETE RESTRICT)
ConnectedAccountDelete(tbl, orders, id) ==
    IF \E o \in Rows(orders) : o.sellerAccountId = id
    THEN [ok |-> FALSE, table |-> tbl]
    ELSE [ok |-> TRUE, table |-> SelectSeq(tbl, LAMBDA row : row.id # id)]

DeleteAccount(id) ==
    /\ \E a \in Rows(connectedAccount) : a.id = id
    /\ ConnectedAccountDelete(connectedAccount, order, id).ok
    /\ connectedAccount' = ConnectedAccountDelete(connectedAccount, order, id).table
    /\ UNCHANGED <<ca, stripeAccounts, co, payments, gs, secretEnv, webhookEvent, order, h, clock,
                   faults>>

\* the deliveries of payment_intent.succeeded events
PaymentInputs ==
    {input \in Inputs :
        /\ input.method = "POST"
        /\ input.body \in EventIds
        /\ input.sig = Some(Sign(WebhookSecret, input.body))
        /\ Events[input.body].type = "payment_intent.succeeded"}

\* payment events are handled, interleaved, while rows are deleted
SellerNext ==
    \/ \E r \in Overlapping, input \in PaymentInputs : HandlerVerify(r, input)
    \/ \E r \in Reqs : HandlerFindSeen(r)
    \/ \E r \in Reqs : HandlerCreateEvent(r)
    \/ \E r \in Reqs : PaymentIntentChargeRetrieve(r)
    \/ \E r \in Reqs : PaymentIntentFindSeller(r)
    \/ \E r \in Reqs : PaymentIntentUpsert(r)
    \/ \E r \in Reqs : HandlerMarkProcessed(r)
    \/ \E id \in {SeedAccount.id, SeedAccountOnboarded.id} : DeleteAccount(id)

SellerSpec == Init /\ [][SellerNext]_vars

\* ------------------------------------------------------------------------
\* POST /api/connect/create-account
\* ------------------------------------------------------------------------
\* CreateConnectedAccountSchema.safeParse(body): userId is a string of at
\* least one character
CreateConnectedAccountSchema(body) ==
    IF body.userId # Nil /\ body.userId[1] # ""
    THEN [success |-> TRUE, data |-> [userId |-> body.userId[1]]]
    ELSE [success |-> FALSE]

\* the rows prisma.connectedAccount.findFirst({ where: { userId } }) can
\* return: without orderBy, any row of the user
ConnectedAccountFindFirst(tbl, userId) ==
    {tbl[i] : i \in {j \in DOMAIN tbl : tbl[j].userId = userId}}

\* stripe.accounts.create({ type: "express" }): a new account under an id no
\* other account has, nothing submitted yet
StripeAccountsCreate(n) ==
    [id |-> "acct_" \o ToString(100 + n), charges_enabled |-> Some(FALSE),
     payouts_enabled |-> Some(FALSE), details_submitted |-> Some(FALSE),
     country |-> Some("US"), default_currency |-> Some("usd")]

\* prisma.connectedAccount.create({ data }): refused when the user does not
\* exist (ConnectedAccount_userId_fkey) or the account id is taken
\* (ConnectedAccount_stripeAccountId_key); userId carries no unique index
ConnectedAccountCreate(tbl, userId, account, now) ==
    IF \/ userId \notin Users
       \/ \E i \in DOMAIN tbl : tbl[i].stripeAccountId = account.id
    THEN [ok |-> FALSE, table |-> tbl]
    ELSE [ok |-> TRUE,
          table |-> Append(tbl,
             [id |-> Len(tbl) + 1, userId |-> userId,
              stripeAccountId |-> account.id,
              chargesEnabled |-> BooleanOf(account.charges_enabled),
              payoutsEnabled |-> BooleanOf(account.payouts_enabled),
              detailsSubmitted |-> BooleanOf(account.details_submitted),
              onboardingCompletedAt |->
                  IF BooleanOf(account.details_submitted) THEN Some(now) ELSE Nil,
              country |-> account.country,
              defaultCurrency |-> account.default_currency])]

\* res.status(status).json(body) of create-account
RespondCreate(r, status, body) ==
    [ca EXCEPT ![r].pc = "done", ![r].status = status, ![r].body = body]

\* lines 9-18: method check and body validation
CreateAccountValidate(r, input) ==
    /\ ca[r].pc = "idle"
    /\ \A q \in CreateReqs : q < r => ca[q].pc # "idle"
    /\ LET parsed == CreateConnectedAccountSchema(input)
       IN  ca' =
             [IF input.method # "POST"
              THEN RespondCreate(r, 405, "Method Not Allowed")
              ELSE IF ~parsed.success
              THEN RespondCreate(r, 400, "Invalid body")
              ELSE [ca EXCEPT ![r].pc = "findFirst",
                              ![r].userId = parsed.data.userId,
                              \* the account ids the user has rows for as the
                              \* request arrives
                              ![r].had =
                                  {row.stripeAccountId :
                                     row \in ConnectedAccountFindFirst(
                                               connectedAccount, parsed.data.userId)}]
              EXCEPT ![r].req = input]
    /\ UNCHANGED <<co, payments, gs, secretEnv, webhookEvent, order, connectedAccount, h, clock,
                   faults, stripeAccounts>>

\* lines 22-28: the existence lookup; a row found is returned as reused
CreateAccountFindFirst(r) ==
    /\ ca[r].pc = "findFirst"
    /\ LET found == ConnectedAccountFindFirst(connectedAccount, ca[r].userId)
       IN  IF found = {}
           THEN ca' = [ca EXCEPT ![r].pc = "accountsCreate"]
           ELSE \E existing \in found :
                   ca' = [RespondCreate(r, 200, "reused")
                            EXCEPT ![r].stripeAccountId = Some(existing.stripeAccountId),
                                   ![r].reused = TRUE]
    /\ UNCHANGED <<co, payments, gs, secretEnv, webhookEvent, order, connectedAccount, h, clock,
                   faults, stripeAccounts>>

\* line 31: create the provider account; a failure reaches the catch
CreateAccountStripe(r) ==
    /\ ca[r].pc = "accountsCreate"
    /\ \E fault \in FaultChoices :
         /\ faults' = IF fault THEN faults + 1 ELSE faults
         /\ stripeAccounts' = IF fault THEN stripeAccounts ELSE stripeAccounts + 1
         /\ ca' = IF fault
                  THEN [RespondCreate(r, 500, "Failed to create connected account")
                          EXCEPT ![r].faulted = TRUE]
                  ELSE [ca EXCEPT ![r].pc = "create",
                                  ![r].account =
                                      Some(StripeAccountsCreate(stripeAccounts + 1))]
    /\ UNCHANGED <<co, payments, gs, secretEnv, webhookEvent, order, connectedAccount, h, clock>>

\* lines 34-49: persist the account and answer 201; a refused insert reaches
\* the catch (lines 50-53)
CreateAccountPersist(r) ==
    /\ ca[r].pc = "create"
    /\ \E fault \in FaultChoices :
         LET account == ca[r].account[1]
             res == IF fault THEN [ok |-> FALSE, table |-> connectedAccount]
                    ELSE ConnectedAccountCreate(connectedAccount, ca[r].userId,
                                                account, clock)
         IN  /\ connectedAccount' = res.table
             /\ faults' = IF fault THEN faults + 1 ELSE faults
             /\ clock' = IF BooleanOf(account.details_submitted)
                         THEN clock + 1 ELSE clock
             /\ ca' = IF res.ok
                      THEN [RespondCreate(r, 201, "created")
                              EXCEPT ![r].stripeAccountId = Some(account.id)]
                      ELSE [RespondCreate(r, 500, "Failed to create connected account")
                              EXCEPT ![r].faulted = fault]
    /\ UNCHANGED <<co, payments, gs, secretEnv, webhookEvent, order, h, stripeAccounts>>

\* create-account requests arrive at any time and their executions interleave
ConnectNext ==
    \/ \E r \in CreateReqs, input \in CreateInputs : CreateAccountValidate(r, input)
    \/ \E r \in CreateReqs : CreateAccountFindFirst(r)
    \/ \E r \in CreateReqs : CreateAccountStripe(r)
    \/ \E r \in CreateReqs : CreateAccountPersist(r)

ConnectSpec == Init /\ [][ConnectNext]_vars

\* ------------------------------------------------------------------------
\* GET /api/connect/get-account-status
\* ------------------------------------------------------------------------
\* GetAccountStatusSchema.safeParse(query): each id, when given, has at least
\* one character, and one of the two is given and not empty
GetAccountStatusSchema(query) ==
    IF /\ query.userId # Some("") /\ query.stripeAccountId # Some("")
       /\ (query.userId # Nil \/ query.stripeAccountId # Nil)
    THEN [success |-> TRUE, data |-> query]
    ELSE [success |-> FALSE]

\* the accounts stripe.accounts.retrieve(id) can return: the account as the
\* provider has it at the moment, before or after the seller completed
\* onboarding; none (the call throws) for an id the provider never issued
StripeAccountsRetrieve(id, created) ==
    IF id \in {"acct_1", "acct_2"}
          \cup {StripeAccountsCreate(n).id : n \in 1 .. created}
    THEN {[id |-> id, charges_enabled |-> Some(FALSE),
           payouts_enabled |-> Some(FALSE), details_submitted |-> Some(FALSE),
           country |-> Some("US"), default_currency |-> Some("usd")],
          [id |-> id, charges_enabled |-> Some(TRUE),
           payouts_enabled |-> Some(TRUE), details_submitted |-> Some(TRUE),
           country |-> Some("US"), default_currency |-> Some("usd")]}
    ELSE {}

\* prisma.connectedAccount.updateMany({ where: { stripeAccountId }, data }):
\* every matching row, none being no error
ConnectedAccountUpdateMany(tbl, account, now) ==
    [i \in DOMAIN tbl |->
        IF tbl[i].stripeAccountId = account.id
        THEN [tbl[i] EXCEPT
                !.chargesEnabled = BooleanOf(account.charges_enabled),
                !.payoutsEnabled = BooleanOf(account.payouts_enabled),
                !.detailsSubmitted = BooleanOf(account.details_submitted),
                !.onboardingCompletedAt =
                    IF BooleanOf(account.details_submitted)
                    THEN Some(now) ELSE Nil,
                !.country = account.country,
                !.defaultCurrency = account.default_currency]
        ELSE tbl[i]]

\* res.status(status).json(body) of get-account-status
RespondSync(r, status, body) ==
    [gs EXCEPT ![r].pc = "done", ![r].status = status, ![r].body = body]

\* lines 69-85: method check and query validation; lines 89-90: an account
\* id in the query needs no lookup
SyncValidate(r, input) ==
    /\ gs[r].pc = "idle"
    /\ \A q \in SyncReqs : q < r => gs[q].pc # "idle"
    /\ LET parsed == GetAccountStatusSchema(
                         [userId |-> input.userId,
                          stripeAccountId |-> input.stripeAccountId])
       IN  gs' =
             [IF input.method # "GET"
              THEN RespondSync(r, 405, "Method Not Allowed")
              ELSE IF ~parsed.success
              THEN RespondSync(r, 400, "Invalid query")
              ELSE IF parsed.data.stripeAccountId # Nil
              THEN [gs EXCEPT ![r].pc = "retrieve",
                              ![r].stripeAccountId = parsed.data.stripeAccountId[1]]
              ELSE [gs EXCEPT ![r].pc = "findFirst"]
              EXCEPT ![r].req = input]
    /\ UNCHANGED <<secretEnv, webhookEvent, order, connectedAccount, h, clock,
                   faults, ca, stripeAccounts, co, payments>>

\* lines 91-100: resolve the account id from the user's row; none: 404
SyncFindFirst(r) ==
    /\ gs[r].pc = "findFirst"
    /\ LET found == ConnectedAccountFindFirst(connectedAccount, gs[r].req.userId[1])
       IN  IF found = {}
           THEN gs' = RespondSync(r, 404, "Connected account not found")
           ELSE \E existing \in found :
                   gs' = [gs EXCEPT ![r].pc = "retrieve",
                                    ![r].stripeAccountId = existing.stripeAccountId]
    /\ UNCHANGED <<secretEnv, webhookEvent, order, connectedAccount, h, clock,
                   faults, ca, stripeAccounts, co, payments>>

\* line 104: fetch the account; a failure reaches the catch (lines 130-136)
SyncRetrieve(r) ==
    /\ gs[r].pc = "retrieve"
    /\ LET answers == StripeAccountsRetrieve(gs[r].stripeAccountId, stripeAccounts)
       IN  \/ /\ answers = {}
              /\ gs' = RespondSync(r, 500, "Failed to retrieve account")
              /\ UNCHANGED faults
           \/ /\ faults < MaxFaults
              /\ faults' = faults + 1
              /\ gs' = RespondSync(r, 500, "Failed to retrieve account")
           \/ \E account \in answers :
                 /\ gs' = [gs EXCEPT ![r].pc = "updateMany",
                                     ![r].account = Some(account)]
                 /\ UNCHANGED faults
    /\ UNCHANGED <<secretEnv, webhookEvent, order, connectedAccount, h, clock,
                   ca, stripeAccounts, co, payments>>

\* lines 107-129: write the account's status to its row and answer 200
SyncUpdateMany(r) ==
    /\ gs[r].pc = "updateMany"
    /\ \E fault \in FaultChoices :
         LET account == gs[r].account[1]
         IN  /\ faults' = IF fault THEN faults + 1 ELSE faults
             /\ connectedAccount' =
                   IF fault THEN connectedAccount
                   ELSE ConnectedAccountUpdateMany(connectedAccount, account, clock)
             /\ clock' = IF BooleanOf(account.details_submitted)
                         THEN clock + 1 ELSE clock
             /\ gs' = IF fault
                      THEN RespondSync(r, 500, "Failed to retrieve account")
                      ELSE RespondSync(r, 200, "synced")
    /\ UNCHANGED <<secretEnv, webhookEvent, order, h, ca, stripeAccounts, co, payments>>

\* ------------------------------------------------------------------------
\* Accounts written by create-account, get-account-status and account.updated
\* ------------------------------------------------------------------------
\* the deliveries of account.updated events
AccountInputs ==
    {input \in Inputs :
        /\ input.method = "POST"
        /\ input.body \in EventIds
        /\ input.sig = Some(Sign(WebhookSecret, input.body))
        /\ Events[input.body].type = "account.updated"}

\* the create-account requests that pass the method check and validation
ValidCreateInputs ==
    {input \in CreateInputs :
        input.method = "POST" /\ CreateConnectedAccountSchema(input).success}

\* no request of any of the three endpoints is being handled
AllQuiet ==
    /\ Quiet
    /\ \A r \in CreateReqs : ca[r].pc \in {"idle", "done"}
    /\ \A r \in SyncReqs : gs[r].pc \in {"idle", "done"}

\* the requests of the run so far
Arrived ==
    Cardinality({r \in Reqs : h[r].pc # "idle"})
    + Cardinality({r \in CreateReqs : ca[r].pc # "idle"})
    + Cardinality({r \in SyncReqs : gs[r].pc # "idle"})

\* a request may arrive: none is being handled and the run has room
Room == AllQuiet /\ Arrived < MaxDeliveries

\* requests of the three endpoints, one at a time, in any order
AccountNext ==
    \/ \E r \in CreateReqs, input \in ValidCreateInputs :
          Room /\ CreateAccountValidate(r, input)
    \/ \E r \in CreateReqs : CreateAccountFindFirst(r)
    \/ \E r \in CreateReqs : CreateAccountStripe(r)
    \/ \E r \in CreateReqs : CreateAccountPersist(r)
    \/ \E r \in SyncReqs, input \in SyncInputs : Room /\ SyncValidate(r, input)
    \/ \E r \in SyncReqs : SyncFindFirst(r)
    \/ \E r \in SyncReqs : SyncRetrieve(r)
    \/ \E r \in SyncReqs : SyncUpdateMany(r)
    \/ \E r \in Delivered, input \in AccountInputs : Room /\ HandlerVerify(r, input)
    \/ \E r \in Reqs : HandlerFindSeen(r)
    \/ \E r \in Reqs : HandlerCreateEvent(r)
    \/ \E r \in Reqs : AccountUpdated(r)
    \/ \E r \in Reqs : HandlerMarkProcessed(r)

AccountSpec == Init /\ [][AccountNext]_vars

\* ------------------------------------------------------------------------
\* POST /api/checkout (checkout.ts and its older revision part_004) and
\* POST /api/connect/creates
\* ------------------------------------------------------------------------
\* CreateCheckoutSessionSchema.safeParse(body): ids and priceId of at least
\* one character when given, quantity an integer in 1 .. 99 (default 1),
\* feePercent in 0 .. 100 (default 10), one of userId and stripeAccountId
CreateCheckoutSessionSchema(body) ==
    IF /\ body.userId # Some("") /\ body.stripeAccountId # Some("")
       /\ body.buyerId # Some("")
       /\ body.priceId # Nil /\ body.priceId # Some("")
       /\ body.quantity # Nil => body.quantity[1] \in 1 .. 99
       /\ body.feePercent # Nil => body.feePercent[1] \in 0 .. 100
       /\ (body.userId # Nil \/ body.stripeAccountId # Nil)
    THEN [success |-> TRUE,
          data |-> [body EXCEPT !.quantity = Some(Coalesce(@, 1)),
                                !.feePercent = Some(Coalesce(@, 10))]]
    ELSE [success |-> FALSE]

\* Schema.safeParse(body) of creates.ts: amount a positive integer, currency
\* of three characters, buyerId any string when given
Schema(body) ==
    IF /\ body.userId # Some("") /\ body.stripeAccountId # Some("")
       /\ body.amount # Nil /\ body.amount[1] > 0
       /\ body.currency # Nil /\ Len(body.currency[1]) = 3
       /\ body.feePercent # Nil => body.feePercent[1] \in 0 .. 100
       /\ (body.userId # Nil \/ body.stripeAccountId # Nil)
    THEN [success |-> TRUE,
          data |-> [body EXCEPT !.feePercent = Some(Coalesce(@, 10))]]
    ELSE [success |-> FALSE]

\* what stripe.prices.retrieve(id) can return; none (the call throws) for an
\* id the provider does not know.  A price with custom amounts has no
\* unit_amount.
StripePricesRetrieve(id) ==
    CASE id = "price_a" ->
           {[unit_amount |-> Some(1000), currency |-> Some(<<"u", "s", "d">>)]}
      [] id = "price_free" ->
           {[unit_amount |-> Some(0), currency |-> Some(<<"u", "s", "d">>)]}
      [] id = "price_custom" ->
           {[unit_amount |-> Nil, currency |-> Some(<<"u", "s", "d">>)]}
      [] OTHER -> {}

\* Math.floor(subtotal * (feePercent / 100)).  The amounts and percentages of
\* this model are ones whose floating-point product is the exact one.
ApplicationFee(subtotal, feePercent) == (subtotal * feePercent) \div 100

\* the metadata the three producers attach to the payment intent
\* checkout.ts lines 79-87: buyerId: input.buyerId || "guest"
CheckoutMetadata(buyerId, sellerAcct, applicationFee) ==
    [buyerId |-> IF buyerId \in {Nil, Some("")} THEN Some("guest") ELSE buyerId,
     sellerStripeAccountId |-> Some(sellerAcct),
     platformFee |-> Some(StringOf(applicationFee))]

\* part_004 lines 86-93 and creates.ts lines 47-51: buyerId: buyerId ?? ""
IntentMetadata(buyerId, sellerAcct, applicationFee) ==
    [buyerId |-> IF buyerId = Nil THEN Some("") ELSE buyerId,
     sellerStripeAccountId |-> Some(sellerAcct),
     platformFee |-> Some(StringOf(applicationFee))]

\* res.status(status).json(body) of a payment-creating endpoint
RespondPay(r, status, body) ==
    [co EXCEPT ![r].pc = "done", ![r].status = status, ![r].body = body]

Called(r, call) == [co EXCEPT ![r].calls = Append(@, call)]

\* the handler's catch: 500 with the endpoint's message
PayFailed(r, call) ==
    [Called(r, call) EXCEPT
        ![r].pc = "done", ![r].status = 500,
        ![r].body = IF co[r].req.endpoint = "creates"
                    THEN "Failed to create PaymentIntent"
                    ELSE "Failed to create checkout session"]

\* method check and body validation (checkout.ts lines 17-28, creates.ts
\* lines 18-27); an account id in the body needs no lookup (lines 32-33)
PayValidate(r, input) ==
    /\ co[r].pc = "idle"
    /\ \A q \in PayReqs : q < r => co[q].pc = "done"
    /\ LET parsed == IF input.endpoint = "creates" THEN Schema(input.body)
                     ELSE CreateCheckoutSessionSchema(input.body)
           next == IF input.endpoint = "creates" THEN "paymentIntentsCreate"
                   ELSE "accountsRetrieve"
       IN  co' =
             [IF input.method # "POST"
              THEN RespondPay(r, 405, "Method Not Allowed")
              ELSE IF ~parsed.success
              THEN [Called(r, "safeParse") EXCEPT
                       ![r].pc = "done", ![r].status = 400, ![r].body = "Invalid body"]
              ELSE IF parsed.data.stripeAccountId # Nil
              THEN [Called(r, "safeParse") EXCEPT
                       ![r].pc = next, ![r].data = parsed.data,
                       ![r].sellerAcct = parsed.data.stripeAccountId[1]]
              ELSE [Called(r, "safeParse") EXCEPT
                       ![r].pc = "findFirst", ![r].data = parsed.data]
              EXCEPT ![r].req = input]
    /\ UNCHANGED <<secretEnv, webhookEvent, order, connectedAccount, h, clock,
                   faults, ca, stripeAccounts, gs, payments>>

\* checkout.ts lines 34-39, creates.ts lines 32-37: the seller's account id
\* from the user's row; none: 404
PayFindFirst(r) ==
    /\ co[r].pc = "findFirst"
    /\ LET found == ConnectedAccountFindFirst(connectedAccount, co[r].data.userId[1])
           next == IF co[r].req.endpoint = "creates" THEN "paymentIntentsCreate"
                   ELSE "accountsRetrieve"
       IN  \/ /\ faults < MaxFaults
              /\ faults' = faults + 1
              /\ co' = PayFailed(r, "findFirst")
           \/ /\ found = {}
              /\ co' = [Called(r, "findFirst") EXCEPT
                           ![r].pc = "done", ![r].status = 404,
                           ![r].body = "Connected account not found"]
              /\ UNCHANGED faults
           \/ \E existing \in found :
                 /\ co' = [Called(r, "findFirst") EXCEPT
                              ![r].pc = next,
                              ![r].sellerAcct = existing.stripeAccountId]
                 /\ UNCHANGED faults
    /\ UNCHANGED <<secretEnv, webhookEvent, order, connectedAccount, h, clock,
                   ca, stripeAccounts, gs, payments>>

\* the charges_enabled check left out
CheckoutAccountsRetrieveUnchecked(r) ==
    /\ co[r].pc = "accountsRetrieve"
    /\ LET answers == StripeAccountsRetrieve(co[r].sellerAcct, stripeAccounts)
       IN  \/ /\ answers = {}
              /\ co' = PayFailed(r, "accountsRetrieve")
           \/ \E account \in answers :
                 co' = [Called(r, "accountsRetrieve") EXCEPT
                           ![r].pc = "pricesRetrieve",
                           ![r].account = Some(account)]
    /\ UNCHANGED <<secretEnv, webhookEvent, order, connectedAccount, h, clock,
                   faults, ca, stripeAccounts, gs, payments>>

\* checkout.ts lines 43-46: the seller must be able to take charges
CheckoutAccountsRetrieve(r) ==
    /\ co[r].pc = "accountsRetrieve"
    /\ LET answers == StripeAccountsRetrieve(co[r].sellerAcct, stripeAccounts)
       IN  \/ /\ answers = {}
              /\ co' = PayFailed(r, "accountsRetrieve")
              /\ UNCHANGED faults
           \/ /\ faults < MaxFaults
              /\ faults' = faults + 1
              /\ co' = PayFailed(r, "accountsRetrieve")
           \/ \E account \in answers :
                 /\ co' = IF ~BooleanOf(account.charges_enabled)
                          THEN [Called(r, "accountsRetrieve") EXCEPT
                                   ![r].pc = "done", ![r].status = 409,
                                   ![r].account = Some(account),
                                   ![r].body =
                                      IF co[r].req.endpoint = "checkout"
                                      THEN "Seller account cannot receive payments yet"
                                      ELSE "Connected account is not chargeable yet"]
                          ELSE [Called(r, "accountsRetrieve") EXCEPT
                                   ![r].pc = "pricesRetrieve",
                                   ![r].account = Some(account)]
                 /\ UNCHANGED faults
    /\ UNCHANGED <<secretEnv, webhookEvent, order, connectedAccount, h, clock,
                   ca, stripeAccounts, gs, payments>>

\* checkout.ts lines 49-64: the price must have an amount and a currency;
\* the fee; the redirect URLs need NEXT_PUBLIC_APP_URL (read here from the
\* environment) unless the body carries both
CheckoutPricesRetrieve(r) ==
    /\ co[r].pc = "pricesRetrieve"
    /\ LET answers == StripePricesRetrieve(co[r].data.priceId[1])
       IN  \/ /\ answers = {}
              /\ co' = PayFailed(r, "pricesRetrieve")
              /\ UNCHANGED faults
           \/ /\ faults < MaxFaults
              /\ faults' = faults + 1
              /\ co' = PayFailed(r, "pricesRetrieve")
           \/ \E price \in answers, base \in {Nil, Some("https://app.example")} :
                 /\ co' =
                      IF Coalesce(price.unit_amount, 0) = 0 \/ price.currency = Nil
                      THEN [Called(r, "pricesRetrieve") EXCEPT
                               ![r].pc = "done", ![r].status = 422,
                               ![r].price = Some(price),
                               ![r].body =
                                  IF co[r].req.endpoint = "checkout"
                                  THEN "Price missing amount or currency"
                                  ELSE "Unsupported price (missing amount/currency)"]
                      ELSE IF base = Nil /\ ~co[r].data.urls
                      THEN [Called(r, "pricesRetrieve") EXCEPT
                               ![r].pc = "done", ![r].status = 500,
                               ![r].price = Some(price),
                               ![r].body = "Missing NEXT_PUBLIC_APP_URL or explicit redirect URLs"]
                      ELSE [Called(r, "pricesRetrieve") EXCEPT
                               ![r].pc = "sessionsCreate",
                               ![r].price = Some(price),
                               ![r].applicationFee =
                                  ApplicationFee(
                                     price.unit_amount[1] * co[r].data.quantity[1],
                                     co[r].data.feePercent[1])]
                 /\ UNCHANGED faults
    /\ UNCHANGED <<secretEnv, webhookEvent, order, connectedAccount, h, clock,
                   ca, stripeAccounts, gs, payments>>

\* checkout.ts lines 70-94: create the session, whose payment intent carries
\* the fee, the destination and the metadata
CheckoutSessionsCreate(r) ==
    /\ co[r].pc = "sessionsCreate"
    /\ \E fault \in FaultChoices :
         /\ faults' = IF fault THEN faults + 1 ELSE faults
         /\ co' = IF fault THEN PayFailed(r, "sessionsCreate")
                  ELSE [Called(r, "sessionsCreate") EXCEPT
                           ![r].pc = "done", ![r].status = 201, ![r].body = "url"]
         /\ payments' =
              IF fault THEN payments
              ELSE Append(payments,
                     Payment(Len(payments) + 1, r, co[r].req.endpoint,
                        co[r].req.body.buyerId,
                        co[r].price[1].unit_amount[1] * co[r].data.quantity[1],
                        co[r].price[1].currency[1],
                        Some(co[r].applicationFee),
                        IF co[r].req.endpoint = "checkout"
                        THEN CheckoutMetadata(co[r].data.buyerId, co[r].sellerAcct,
                                              co[r].applicationFee)
                        ELSE IntentMetadata(co[r].data.buyerId, co[r].sellerAcct,
                                            co[r].applicationFee)))
    /\ UNCHANGED <<secretEnv, webhookEvent, order, connectedAccount, h, clock,
                   ca, stripeAccounts, gs>>

\* creates.ts lines 40-59: the fee, then stripe.paymentIntents.create, which
\* the provider refuses for a destination it does not know
CreatesPaymentIntentsCreate(r) ==
    /\ co[r].pc = "paymentIntentsCreate"
    /\ \E fault \in FaultChoices :
         LET applicationFee == ApplicationFee(co[r].data.amount[1],
                                              co[r].data.feePercent[1])
             refused == StripeAccountsRetrieve(co[r].sellerAcct, stripeAccounts) = {}
             failed == fault \/ refused
         IN  /\ ~(fault /\ refused)
             /\ faults' = IF fault THEN faults + 1 ELSE faults
             /\ co' = IF failed THEN PayFailed(r, "paymentIntentsCreate")
                      ELSE [Called(r, "paymentIntentsCreate") EXCEPT
                               ![r].pc = "done", ![r].status = 201,
                               ![r].applicationFee = applicationFee,
                               ![r].body = "clientSecret"]
             /\ payments' =
                  IF failed THEN payments
                  ELSE Append(payments,
                         Payment(Len(payments) + 1, r, "creates",
                            co[r].req.body.buyerId,
                            co[r].data.amount[1], co[r].data.currency[1],
                            Some(applicationFee),
                            IntentMetadata(co[r].data.buyerId, co[r].sellerAcct,
                                           applicationFee)))
    /\ UNCHANGED <<secretEnv, webhookEvent, order, connectedAccount, h, clock,
                   ca, stripeAccounts, gs>>

\* no payment-creating request is being handled
PayQuiet == \A r \in PayReqs : co[r].pc \in {"idle", "done"}

\* The buyer pays payment k and the provider delivers its
\* payment_intent.succeeded event, correctly signed, to the webhook endpoint,
\* which handles it from start to finish (stripe.ts lines 38-197) with no
\* other request in between: secret check, dedup lookup, ledger insert,
\* charge lookup, seller lookup, Order upsert, processedAt.
PaymentIntentSucceeded(k) ==
    /\ payments[k].handled # 200
    /\ LET pi == payments[k].pi
           eventId == "evt_" \o pi.id
           inserted ==
              WebhookEventCreate(webhookEvent,
                 [stripeEventId |-> eventId, type |-> "payment_intent.succeeded",
                  payload |-> pi.id, processedAt |-> Nil]).table
           seller == ConnectedAccountFindUnique(connectedAccount,
                                                PaymentIntentSellerAcct(pi))
           answer(status) == [payments EXCEPT ![k].handled = status]
       IN  IF secretEnv = Nil
           THEN /\ payments' = answer(500)
                /\ UNCHANGED <<webhookEvent, order, clock, faults>>
           ELSE IF WebhookEventFindUnique(webhookEvent, eventId) # Nil
           THEN /\ payments' = answer(200)
                /\ UNCHANGED <<webhookEvent, order, clock, faults>>
           ELSE \/ \* lines 116-122: the charge lookup fails
                   /\ faults < MaxFaults
                   /\ faults' = faults + 1
                   /\ webhookEvent' = inserted
                   /\ payments' = answer(500)
                   /\ UNCHANGED <<order, clock>>
                \/ \* lines 125-129: no seller row
                   /\ seller = Nil
                   /\ webhookEvent' = WebhookEventMarkProcessed(inserted, eventId, clock)
                   /\ clock' = clock + 1
                   /\ payments' = answer(200)
                   /\ UNCHANGED <<order, faults>>
                \/ /\ seller # Nil
                   /\ \E fault \in FaultChoices,
                         transfer \in {Nil, Some("tr_" \o pi.id)} :
                        LET res == IF fault THEN [ok |-> FALSE, table |-> order]
                                   ELSE OrderUpsert(order, connectedAccount, pi,
                                                    seller[1], transfer)
                        IN  /\ fault => transfer = Nil
                            /\ faults' = IF fault THEN faults + 1 ELSE faults
                            /\ order' = res.table
                            /\ webhookEvent' =
                                 IF res.ok
                                 THEN WebhookEventMarkProcessed(inserted, eventId, clock)
                                 ELSE inserted
                            /\ clock' = IF res.ok THEN clock + 1 ELSE clock
                            /\ payments' = answer(IF res.ok THEN 200 ELSE 500)
    /\ UNCHANGED <<secretEnv, connectedAccount, h, ca, stripeAccounts, gs, co>>

\* payment-creating requests one at a time, and the payments' events
CheckoutNext ==
    \/ \E r \in PayReqs, input \in PayInputs : PayValidate(r, input)
    \/ \E r \in PayReqs : PayFindFirst(r)
    \/ \E r \in PayReqs : CheckoutAccountsRetrieve(r)
    \/ \E r \in PayReqs : CheckoutPricesRetrieve(r)
    \/ \E r \in PayReqs : CheckoutSessionsCreate(r)
    \/ \E r \in PayReqs : CreatesPaymentIntentsCreate(r)
    \/ \E k \in DOMAIN payments : PayQuiet /\ PaymentIntentSucceeded(k)

CheckoutSpec == Init /\ [][CheckoutNext]_vars

\* ------------------------------------------------------------------------
\* Vocabulary of the properties
\* ------------------------------------------------------------------------
Done(r) == h[r].pc = "done"

\* the executions that verified a delivery of event e
Deliveries(e) == {r \in Reqs : h[r].event = e}

\* r1 and r2 are the first and the second delivery of e, both answered
FirstTwo(r1, r2, e) ==
    /\ r1 < r2
    /\ {r1, r2} \subseteq Deliveries(e)
    /\ \A q \in Deliveries(e) : q >= r1 /\ (q = r1 \/ q >= r2)
    /\ Done(r1) /\ Done(r2)

\* Order / ConnectedAccount writes made on behalf of event e
DomainWrites(e) ==
    LET RECURSIVE Sum(_)
        Sum(S) == IF S = {} THEN 0
                  ELSE LET r == CHOOSE x \in S : TRUE
                       IN  h[r].writes + Sum(S \ {r})
    IN  Sum(Deliveries(e))

LedgerRows(e) == {i \in DOMAIN webhookEvent : webhookEvent[i].stripeEventId = e}

OrdersOf(p) == {i \in DOMAIN order : order[i].paymentIntentId = p}

\* ------------------------------------------------------------------------
\* C1
\* ------------------------------------------------------------------------
\* C1 as stated: an event delivered twice in sequence is answered 200 both
\* times, the second time as a duplicate, and exactly one Order /
\* ConnectedAccount write was made for it.
C1_TwoDeliveriesOneMutation ==
    \A e \in EventIds : \A r1, r2 \in Reqs :
        FirstTwo(r1, r2, e) =>
            /\ h[r1].status = 200 /\ h[r2].status = 200
            /\ h[r2].body = "duplicate"
            /\ DomainWrites(e) = 1

\* C1 as amended, the state part: the second of two deliveries in sequence
\* is answered 200 as a duplicate and wrote nothing; at most one Order /
\* ConnectedAccount write was made for the event; the first delivery is
\* answered 200, or 500 "Webhook processing failed" when its branch faulted.
C1_SecondIsDuplicate ==
    \A e \in EventIds : \A r1, r2 \in Reqs :
        FirstTwo(r1, r2, e) =>
            /\ h[r2].status = 200 /\ h[r2].body = "duplicate"
            /\ h[r2].writes = 0 /\ ~h[r2].created
            /\ DomainWrites(e) <= 1
            /\ Cardinality(LedgerRows(e)) = 1
            /\ \/ h[r1].status = 200 /\ h[r1].body = "received"
               \/ h[r1].status = 500 /\ h[r1].body = "Webhook processing failed"

\* C1 as amended, the step part: the step that answers a delivery as a
\* duplicate changes no WebhookEvent, Order or ConnectedAccount row.
C1_DuplicateChangesNothing ==
    \A r \in Reqs :
        (h[r].pc = "findSeen" /\ h'[r].pc = "done") =>
            /\ h'[r].body = "duplicate"
            /\ UNCHANGED <<webhookEvent, order, connectedAccount>>

\* C1 (amended): delivering one validly signed event twice in sequence makes
\* at most one domain write; the second delivery is answered 200 as a
\* duplicate and changes no row; the first is answered 200 unless its
\* handling faulted.
C1_Idempotent == []C1_SecondIsDuplicate /\ [][C1_DuplicateChangesNothing]_vars

\* an event whose first delivery wrote a domain row was delivered again
C1_Witness ==
    \E e \in EventIds : \E r1, r2 \in Reqs :
        /\ FirstTwo(r1, r2, e)
        /\ h[r1].writes = 1 /\ h[r1].status = 200
        /\ h[r2].body = "duplicate"

\* ------------------------------------------------------------------------
\* C2
\* ------------------------------------------------------------------------
\* C2: when two executions for one event id both pass the dedup lookup
\* before either inserts, one insert succeeds and the execution whose insert
\* hits the unique index answers 200 and raises no fault.
C2_LoserAcknowledges ==
    \A e \in EventIds :
        /\ Cardinality(LedgerRows(e)) <= 1
        /\ \A r \in Deliveries(e) :
              (Done(r) /\ h[r].conflict) =>
                  h[r].status = 200 /\ h[r].body # "uncaught"

\* ------------------------------------------------------------------------
\* C3
\* ------------------------------------------------------------------------
\* C3: of the executions for one event id at most one gets past the ledger
\* insert to the dispatch on the event type, and only that one writes Order
\* or ConnectedAccount rows.
C3_OneDispatchPerEvent ==
    \A e \in EventIds :
        /\ Cardinality({r \in Deliveries(e) : h[r].created}) <= 1
        /\ \A r \in Deliveries(e) :
              (h[r].writes > 0 \/ h[r].pc \notin {"idle", "findSeen", "create", "done"})
                  => h[r].created

\* two executions for one event passed the lookup; one dispatched and wrote,
\* the other was stopped at the insert
C3_Witness ==
    \E e \in EventIds : \E r1, r2 \in Deliveries(e) :
        /\ r1 # r2
        /\ h[r1].created /\ h[r1].writes = 1
        /\ h[r2].conflict

\* ------------------------------------------------------------------------
\* C4
\* ------------------------------------------------------------------------
\* C4: when a delivery of an event ends with 500 "Webhook processing failed",
\* the ledger row exists with processedAt unset until the event is handled
\* again, and the redelivery that finally gets the provider its 200 has
\* re-run the reconciliation: from then on processedAt is set.  (The
\* provider stops redelivering at the first 200, so this is where the
\* claim's "eventually" must have happened.)
C4_RedeliveryReprocesses ==
    \A e \in EventIds : \A r1 \in Deliveries(e) :
        (Done(r1) /\ h[r1].status = 500 /\ h[r1].body = "Webhook processing failed") =>
            /\ LedgerRows(e) # {}
            /\ \A r2 \in Deliveries(e) :
                  (r1 < r2 /\ Done(r2) /\ h[r2].status = 200) =>
                      \A i \in LedgerRows(e) : webhookEvent[i].processedAt # Nil

\* ------------------------------------------------------------------------
\* C5
\* ------------------------------------------------------------------------
\* a POST with a signature header that does not verify against the
\* configured secret
BadSignature(req) ==
    /\ req.method = "POST" /\ req.sig # Nil /\ secretEnv # Nil
    /\ (req.sig[1].secret # secretEnv[1] \/ req.sig[1].body # req.body)

\* C5: a POST whose signature header is present but fails verification is
\* answered 400 at once; its execution inserts no WebhookEvent row and makes
\* no Order or ConnectedAccount write.
C5_BadSignatureRejected ==
    \A r \in Reqs :
        (h[r].pc # "idle" /\ BadSignature(h[r].req)) =>
            /\ Done(r) /\ h[r].status = 400
            /\ h[r].body = "Signature verification failed"
            /\ h[r].event = "" /\ ~h[r].created /\ h[r].writes = 0

\* a forged and a tampered request were both answered
C5_Witness ==
    \E r1, r2 \in Reqs :
        /\ Done(r1) /\ BadSignature(h[r1].req) /\ h[r1].req.sig[1].secret = ForgedSecret
        /\ Done(r2) /\ BadSignature(h[r2].req) /\ h[r2].req.sig[1].secret = WebhookSecret

\* ------------------------------------------------------------------------
\* C6
\* ------------------------------------------------------------------------
RejectedInput(req) ==
    \/ req.method # "POST"
    \/ req.sig = Nil
    \/ secretEnv = Nil
    \/ BadSignature(req)

\* C6: every rejected input (method other than POST, missing signature
\* header, missing secret configuration, signature mismatch) is answered
\* with a 4xx status and leaves the store as it was.
C6_RejectedIsClientClass ==
    \A r \in Reqs :
        (h[r].pc # "idle" /\ RejectedInput(h[r].req)) =>
            /\ Done(r) /\ h[r].status \in 400 .. 499
            /\ ~h[r].created /\ h[r].writes = 0

\* ------------------------------------------------------------------------
\* C7
\* ------------------------------------------------------------------------
IsPaymentIntentEvent(e) == e \in EventIds /\ Events[e].type = "payment_intent.succeeded"

SellerResolves(e) ==
    \E a \in Rows(connectedAccount) :
        Some(a.stripeAccountId) = Events[e].object.metadata.sellerStripeAccountId

\* C7: a new payment_intent.succeeded event whose seller account id matches
\* no ConnectedAccount row creates no Order and is answered 200, whatever
\* the other steps of the branch do.
C7_UnknownSellerAcknowledged ==
    \A r \in Reqs :
        (/\ Done(r) /\ h[r].created
         /\ IsPaymentIntentEvent(h[r].event) /\ ~SellerResolves(h[r].event)) =>
            /\ h[r].status = 200
            /\ OrdersOf(Events[h[r].event].object.id) = {}

\* ------------------------------------------------------------------------
\* C8
\* ------------------------------------------------------------------------
IsSessionEvent(e) == e \in EventIds /\ Events[e].type = "checkout.session.completed"

SessionPaymentIntent(e) ==
    IF IsSessionEvent(e) THEN Events[e].object.payment_intent ELSE Nil

PaymentIntentOf(e) ==
    IF IsPaymentIntentEvent(e) THEN Some(Events[e].object.id) ELSE Nil

\* a session event was handled as a no-op (r1), then a payment event created
\* the Order of the session's payment intent (r2), then the same session
\* event was delivered again (r3); no other session event wrote that Order
C8_Scenario(r1, r2, r3) ==
    /\ r1 < r2 /\ r2 < r3 /\ Done(r1) /\ Done(r2) /\ Done(r3)
    /\ IsSessionEvent(h[r1].event) /\ IsPaymentIntentEvent(h[r2].event)
    /\ SessionPaymentIntent(h[r1].event) = PaymentIntentOf(h[r2].event)
    /\ h[r1].body = "received" /\ h[r1].writes = 0
    /\ h[r2].body = "received" /\ h[r2].writes = 1
    /\ \A q \in Reqs :
          (q < r2 /\ PaymentIntentOf(h[q].event) = PaymentIntentOf(h[r2].event))
              => h[q].writes = 0
    /\ h[r3].event = h[r1].event
    /\ \A q \in Reqs :
          (IsSessionEvent(h[q].event) /\ h[q].event # h[r1].event) => h[q].writes = 0

\* C8 as stated: after the session event was a no-op, the payment event
\* created the Order and the same session event was delivered again, the
\* Order carries the session id.
C8_ReplayAttachesSession ==
    \A r1, r2, r3 \in Reqs :
        C8_Scenario(r1, r2, r3) =>
            \E i \in OrdersOf(Events[h[r2].event].object.id) :
                order[i].checkoutSessionId = Events[h[r1].event].object.id

\* C8 (amended): in that scenario the second delivery of the session event
\* is answered 200 as a duplicate and the one Order of the payment intent
\* keeps checkoutSessionId unset.
C8_ReplayIsDuplicate ==
    \A r1, r2, r3 \in Reqs :
        C8_Scenario(r1, r2, r3) =>
            /\ h[r3].status = 200 /\ h[r3].body = "duplicate"
            /\ Cardinality(OrdersOf(Events[h[r2].event].object.id)) = 1
            /\ \A i \in OrdersOf(Events[h[r2].event].object.id) :
                  order[i].checkoutSessionId = Nil

C8_Witness == \E r1, r2, r3 \in Reqs : C8_Scenario(r1, r2, r3)

\* ------------------------------------------------------------------------
\* C9, C10
\* ------------------------------------------------------------------------
\* the Order columns each payment event of the run must produce, written
\* out by hand
Expected ==
    [e \in {"evt_pi_a", "evt_pi_b", "evt_pi_c"} |->
        CASE e = "evt_pi_a" ->
               [amount |-> 1000, platformFee |-> 100, currency |-> <<"J", "P", "Y">>]
          [] e = "evt_pi_b" ->
               [amount |-> 500, platformFee |-> 0, currency |-> <<"U", "S", "D">>]
          [] OTHER ->
               [amount |-> 0, platformFee |-> 7, currency |-> <<"U", "S", "D">>]]

\* execution r takes its upsert step and no fault is injected in it
UpsertStep(r) ==
    /\ h[r].pc = "orderUpsert" /\ h'[r].pc # "orderUpsert"
    /\ faults' = faults

\* C9, the state part: no two Order rows share a paymentIntentId, and the
\* payment intent of a payment event that was handled to the end with its
\* seller resolved has exactly one Order row.
C9_OneOrderPerPaymentIntent ==
    /\ \A i, j \in DOMAIN order :
          order[i].paymentIntentId = order[j].paymentIntentId => i = j
    /\ \A r \in Reqs :
          (/\ Done(r) /\ h[r].body = "received"
           /\ IsPaymentIntentEvent(h[r].event) /\ SellerResolves(h[r].event)) =>
              Cardinality(OrdersOf(Events[h[r].event].object.id)) = 1

\* C9, the step part: an upsert for a payment intent that has an Order
\* rewrites amount, platformFee, currency and status of that row and adds
\* no row.
C9_UpsertUpdatesInPlace ==
    \A r \in Reqs :
        (UpsertStep(r) /\ OrdersOf(Events[h[r].event].object.id) # {}) =>
            /\ h'[r].pc = "mark"
            /\ Len(order') = Len(order)
            /\ \A i \in OrdersOf(Events[h[r].event].object.id) :
                  /\ order'[i].id = order[i].id
                  /\ order'[i].paymentIntentId = order[i].paymentIntentId
                  /\ order'[i].amount = Expected[h[r].event].amount
                  /\ order'[i].platformFee = Expected[h[r].event].platformFee
                  /\ order'[i].currency = Expected[h[r].event].currency
                  /\ order'[i].status = "paid"

\* C9: after any interleaving of payment_intent.succeeded events for one
\* payment intent there is one Order row for it; a later event updates
\* amount, platformFee, currency and status of that row and creates none.
C9_UpsertNotInsert ==
    []C9_OneOrderPerPaymentIntent /\ [][C9_UpsertUpdatesInPlace]_vars

\* two payment events of one payment intent were handled to the end, the
\* second one on the row the first created
C9_Witness ==
    \E r1, r2 \in Reqs :
        /\ r1 # r2 /\ h[r1].event # h[r2].event
        /\ IsPaymentIntentEvent(h[r1].event) /\ IsPaymentIntentEvent(h[r2].event)
        /\ Events[h[r1].event].object.id = Events[h[r2].event].object.id
        /\ h[r1].writes = 1 /\ h[r2].writes = 1
        /\ Done(r1) /\ Done(r2)
        /\ Cardinality(OrdersOf(Events[h[r1].event].object.id)) = 1

\* C10: the Order created by a new payment_intent.succeeded event with a
\* resolvable seller and no prior Order has amount = amount_received when
\* present, else the requested amount, else 0; the payload currency in upper
\* case; status paid; sellerAccountId the id of the resolved account.
C10_CreatedOrder ==
    \A r \in Reqs :
        LET e == h[r].event
            pi == Events[e].object
        IN  (UpsertStep(r) /\ OrdersOf(pi.id) = {}) =>
               /\ h'[r].pc = "mark"
               /\ Len(order') = Len(order) + 1
               /\ LET row == order'[Len(order')]
                  IN  /\ row.paymentIntentId = pi.id
                      /\ row.amount =
                            IF pi.amount_received # Nil THEN pi.amount_received[1]
                            ELSE IF pi.amount # Nil THEN pi.amount[1] ELSE 0
                      /\ row.currency = Expected[e].currency
                      /\ row.status = "paid"
                      /\ \E a \in Rows(connectedAccount) :
                            /\ Some(a.stripeAccountId) = pi.metadata.sellerStripeAccountId
                            /\ row.sellerAccountId = a.id

C10_OrderFromPayload == [][C10_CreatedOrder]_vars

\* Orders exist that were created from a payload with amount_received, from
\* one with only the requested amount, or from one with neither
C10_Witness ==
    /\ \E i \in DOMAIN order : order[i].amount = 0 /\ order[i].currency = <<"U", "S", "D">>
    /\ \E i \in DOMAIN order :
          order[i].amount \in {500, 1000} /\ order[i].sellerAccountId = 1

\* ------------------------------------------------------------------------
\* C11, C12
\* ------------------------------------------------------------------------
\* the ledger row of event e has processedAt set
Processed(e) == \E i \in LedgerRows(e) : webhookEvent[i].processedAt # Nil

\* C11: when a store mutation of an event's reconciliation (the Order update
\* of checkout.session.completed, the Order upsert of
\* payment_intent.succeeded, the ConnectedAccount update of account.updated)
\* is rejected with a fault other than 'row not found', the handler answers
\* 500 and the event's processedAt stays unset.
C11_MutationFaultIs500 ==
    \A r \in Reqs :
        (Done(r) /\ h[r].faulted \in {"orderUpdate", "orderUpsert", "accountUpdate"}) =>
            /\ h[r].status = 500
            /\ ~Processed(h[r].event)

\* C12: a failure of the charge lookup of the payment_intent.succeeded branch
\* does not abort the event: the response is 200, processedAt is set, and
\* when the seller resolves the Order is there, its transferId not learned
\* from this execution.
C12_ChargeLookupDegrades ==
    \A r \in Reqs :
        (Done(r) /\ h[r].faulted = "chargesRetrieve") =>
            /\ h[r].status = 200
            /\ Processed(h[r].event)
            /\ h[r].transferId = Nil
            /\ SellerResolves(h[r].event) =>
                  OrdersOf(Events[h[r].event].object.id) # {}

\* ------------------------------------------------------------------------
\* C13
\* ------------------------------------------------------------------------
IsAccountEvent(e) == e \in EventIds /\ Events[e].type = "account.updated"

AccountsOf(stripeAccountId) ==
    {i \in DOMAIN connectedAccount :
        connectedAccount[i].stripeAccountId = stripeAccountId}

\* execution r takes the step at pc
Takes(r, pc) == h[r].pc = pc /\ h'[r].pc # pc

\* C13, the step part: the Order update of a session event whose payment
\* intent has no Order, and the ConnectedAccount update of an account event
\* whose account has no row, change no Order or ConnectedAccount row and
\* let the execution go on to mark the event processed.
C13_MissChangesNothing ==
    \A r \in Reqs :
        /\ (/\ Takes(r, "orderUpdate")
            /\ OrdersOf(Events[h[r].event].object.payment_intent[1]) = {}) =>
               /\ UNCHANGED <<order, connectedAccount>>
               /\ h'[r].pc = "mark"
        /\ (/\ Takes(r, "accountUpdate")
            /\ AccountsOf(Events[h[r].event].object.id) = {}) =>
               /\ UNCHANGED <<order, connectedAccount>>
               /\ h'[r].pc = "mark"

\* C13, the state part: a new session or account event handled to the end
\* without a write was answered 200 and its ledger row has processedAt set.
C13_MissIsProcessed ==
    \A r \in Reqs :
        (/\ Done(r) /\ h[r].created /\ h[r].writes = 0
         /\ (IsSessionEvent(h[r].event) \/ IsAccountEvent(h[r].event))) =>
            /\ h[r].status = 200 /\ h[r].body = "received"
            /\ Processed(h[r].event)

\* C13: a benign miss is swallowed: no domain row is created or changed, the
\* response is 200 and the event's ledger row has processedAt set.
C13_BenignMiss == []C13_MissIsProcessed /\ [][C13_MissChangesNothing]_vars

\* a session event found no Order and an account event found no account;
\* both were acknowledged
C13_Witness ==
    \E r1, r2 \in Reqs :
        /\ Done(r1) /\ IsSessionEvent(h[r1].event) /\ h[r1].created
        /\ h[r1].writes = 0 /\ h[r1].faulted = "" /\ h[r1].status = 200
        /\ Done(r2) /\ IsAccountEvent(h[r2].event) /\ h[r2].created
        /\ h[r2].writes = 0 /\ h[r2].faulted = "" /\ h[r2].status = 200
        /\ AccountsOf(Events[h[r2].event].object.id) = {}

\* ------------------------------------------------------------------------
\* C14
\* ------------------------------------------------------------------------
IsOtherEvent(e) ==
    /\ e \in EventIds
    /\ ~IsSessionEvent(e) /\ ~IsPaymentIntentEvent(e) /\ ~IsAccountEvent(e)

\* C14, the state part: the execution that handles an event of another type
\* as new has inserted its ledger row, writes no domain row, and ends with
\* 200 and processedAt set.
C14_OtherTypeAcknowledged ==
    \A r \in Reqs :
        (h[r].created /\ IsOtherEvent(h[r].event)) =>
            /\ LedgerRows(h[r].event) # {}
            /\ h[r].writes = 0
            /\ h[r].pc \in {"mark", "done"}
            /\ Done(r) => /\ h[r].status = 200 /\ h[r].body = "received"
                          /\ Processed(h[r].event)

\* C14, the step part: no step of an execution for an event of another type
\* changes an Order or ConnectedAccount row.
C14_OtherTypeChangesNothing ==
    \A r \in Reqs :
        (h'[r] # h[r] /\ IsOtherEvent(h'[r].event)) =>
            UNCHANGED <<order, connectedAccount>>

\* C14: a new validly signed event of any other type gets its ledger row,
\* changes no Order or ConnectedAccount row, has processedAt set and is
\* answered 200.
C14_OtherType == []C14_OtherTypeAcknowledged /\ [][C14_OtherTypeChangesNothing]_vars

C14_Witness ==
    \E r \in Reqs :
        /\ Done(r) /\ h[r].created /\ IsOtherEvent(h[r].event)
        /\ h[r].status = 200 /\ Processed(h[r].event)

\* ------------------------------------------------------------------------
\* C15
\* ------------------------------------------------------------------------
\* the columns each account event of the run must leave in its row, written
\* out by hand
ExpectedAccount ==
    [e \in {"evt_acct", "evt_acct_b"} |->
        IF e = "evt_acct"
        THEN [chargesEnabled |-> TRUE, payoutsEnabled |-> FALSE,
              detailsSubmitted |-> TRUE, country |-> Some("JP"),
              defaultCurrency |-> Some("jpy")]
        ELSE [chargesEnabled |-> FALSE, payoutsEnabled |-> FALSE,
              detailsSubmitted |-> FALSE, country |-> Nil,
              defaultCurrency |-> Nil]]

\* C15: once a new account.updated event for an account id that has a
\* ConnectedAccount row was handled (answered 200, processedAt set), that
\* row's chargesEnabled, payoutsEnabled, detailsSubmitted, country and
\* defaultCurrency equal the payload's values (a missing flag read as false,
\* a missing country / currency as null), and the number of rows is the
\* seeded one.
C15_AccountMirrored ==
    \A r \in Reqs :
        LET e == h[r].event
        IN  (/\ Done(r) /\ h[r].created /\ IsAccountEvent(e)
             /\ h[r].status = 200 /\ Processed(e)
             /\ AccountsOf(Events[e].object.id) # {}) =>
               /\ Len(connectedAccount) = 2
               /\ \A i \in AccountsOf(Events[e].object.id) :
                     /\ connectedAccount[i].chargesEnabled = ExpectedAccount[e].chargesEnabled
                     /\ connectedAccount[i].payoutsEnabled = ExpectedAccount[e].payoutsEnabled
                     /\ connectedAccount[i].detailsSubmitted = ExpectedAccount[e].detailsSubmitted
                     /\ connectedAccount[i].country = ExpectedAccount[e].country
                     /\ connectedAccount[i].defaultCurrency = ExpectedAccount[e].defaultCurrency

\* ------------------------------------------------------------------------
\* C16
\* ------------------------------------------------------------------------
\* C16: however the session and payment events of a payment intent are
\* ordered, interleaved or left out, none of their executions answers 500
\* unless a call of it was rejected by a fault or its ledger insert lost to
\* another delivery of the same event; and a payment event handled to the
\* end with a resolvable seller leaves exactly one Order for its payment
\* intent, with status paid.
C16_OrderTolerant ==
    \A r \in Reqs :
        (IsSessionEvent(h[r].event) \/ IsPaymentIntentEvent(h[r].event)) =>
            /\ h[r].status = 500 => (h[r].faulted # "" \/ h[r].conflict)
            /\ (/\ Done(r) /\ h[r].body = "received"
                /\ IsPaymentIntentEvent(h[r].event) /\ SellerResolves(h[r].event)) =>
                   /\ Cardinality(OrdersOf(Events[h[r].event].object.id)) = 1
                   /\ \A i \in OrdersOf(Events[h[r].event].object.id) :
                         order[i].status = "paid"

\* the session event was handled before the Order existed, the payment event
\* created the Order, and both were acknowledged
C16_Witness ==
    \E r1, r2 \in Reqs :
        /\ Done(r1) /\ IsSessionEvent(h[r1].event) /\ h[r1].status = 200
        /\ h[r1].created /\ h[r1].writes = 0 /\ h[r1].faulted = ""
        /\ Done(r2) /\ IsPaymentIntentEvent(h[r2].event) /\ h[r2].status = 200
        /\ h[r2].writes = 1
        /\ SessionPaymentIntent(h[r1].event) = PaymentIntentOf(h[r2].event)

\* ------------------------------------------------------------------------
\* C17
\* ------------------------------------------------------------------------
\* the ConnectedAccount rows of user u
RowsOfUser(u) == {i \in DOMAIN connectedAccount : connectedAccount[i].userId = u}

\* C17: after any interleaving of create-account requests each userId owns
\* at most one ConnectedAccount row, and every request answered for a userId
\* that had a row when it arrived returned that row's stripeAccountId with
\* reused = true and created no provider account.
C17_OneAccountPerUser ==
    /\ \A u \in Users : Cardinality(RowsOfUser(u)) <= 1
    /\ \A r \in CreateReqs :
          (ca[r].pc = "done" /\ ca[r].had # {}) =>
              /\ ca[r].status = 200 /\ ca[r].reused
              /\ ca[r].stripeAccountId # Nil
              /\ ca[r].stripeAccountId[1] \in ca[r].had
              /\ ca[r].account = Nil

\* ------------------------------------------------------------------------
\* C18
\* ------------------------------------------------------------------------
\* the positions of an execution inside the branch of its event's type
BranchPcs == {"orderUpdate", "chargesRetrieve", "findSeller", "orderUpsert",
              "accountUpdate"}

\* C18: an execution that is inside its event's branch, or has written an
\* Order or ConnectedAccount row, has the ledger row of its event in the
\* store: no domain write for event e without a ledger row for e.
C18_LedgerBeforeWrites ==
    \A r \in Reqs :
        (h[r].writes > 0 \/ h[r].pc \in BranchPcs) =>
            /\ h[r].created
            /\ LedgerRows(h[r].event) # {}

\* a domain row was written and the event is not yet marked processed
C18_Witness ==
    \E r \in Reqs :
        /\ h[r].writes = 1 /\ h[r].pc = "mark"
        /\ LedgerRows(h[r].event) # {} /\ ~Processed(h[r].event)

\* ------------------------------------------------------------------------
\* C19
\* ------------------------------------------------------------------------
\* C19: a ledger row with processedAt set belongs to an event one of whose
\* executions inserted the row, left the branch of the event's type without
\* an escaping fault and answered 200; the event of an execution whose
\* branch threw (500 "Webhook processing failed") has no processedAt.
C19_ProcessedMeansCompleted ==
    /\ \A e \in EventIds :
          Processed(e) =>
              \E r \in Deliveries(e) :
                  /\ h[r].created /\ Done(r)
                  /\ h[r].status = 200 /\ h[r].body = "received"
    /\ \A r \in Reqs :
          (Done(r) /\ h[r].body = "Webhook processing failed") =>
              /\ LedgerRows(h[r].event) # {}
              /\ ~Processed(h[r].event)

\* one event was processed, the branch of another threw
C19_Witness ==
    \E r1, r2 \in Reqs :
        /\ Done(r1) /\ h[r1].body = "received" /\ Processed(h[r1].event)
        /\ Done(r2) /\ h[r2].body = "Webhook processing failed"
        /\ ~Processed(h[r2].event)

\* ------------------------------------------------------------------------
\* C20
\* ------------------------------------------------------------------------
\* the raw bodies, secrets and signature headers of the runs
Bodies == EventIds \cup {"not_json"}
Secrets == {WebhookSecret, ForgedSecret}
Signatures == {Sign(k, b) : k \in Secrets, b \in Bodies}

\* v is { ok: true, event } or { ok: false, message }
TaggedResult(v) ==
    IF "ok" \notin DOMAIN v THEN FALSE
    ELSE IF v.ok THEN DOMAIN v = {"ok", "event"}
    ELSE DOMAIN v = {"ok", "message"}

\* constructEventSafe returns a tagged result whatever it is given
AllTagged ==
    \A b \in Bodies, sig \in Signatures, k \in Secrets :
        TaggedResult(constructEventSafe(b, sig, k))

\* execution r called constructEventSafe
Verified(r) ==
    /\ h[r].pc # "idle"
    /\ h[r].req.method = "POST" /\ h[r].req.sig # Nil /\ secretEnv # Nil

\* C20, the state part: constructEventSafe returns a tagged result for every
\* body, signature and secret; an execution that called it either goes on
\* with the event of an ok:true result, or has answered an ok:false result
\* with 400 "Signature verification failed", having written nothing.
C20_TaggedResult ==
    /\ AllTagged
    /\ \A r \in Reqs :
          Verified(r) =>
              LET v == constructEventSafe(h[r].req.body, h[r].req.sig[1], secretEnv[1])
              IN  /\ TaggedResult(v)
                  /\ v.ok => h[r].event = v.event.id
                  /\ ~v.ok => /\ Done(r) /\ h[r].status = 400
                              /\ h[r].body = "Signature verification failed"
                              /\ ~h[r].created /\ h[r].writes = 0

\* C20, the step part: the step that verifies a request changes no table.
C20_VerifyChangesNothing ==
    \A r \in Reqs :
        Takes(r, "idle") => UNCHANGED <<webhookEvent, order, connectedAccount>>

\* C20: signature verification never raises, has no effect on the store, and
\* an ok:false result is answered 400, never 500.
C20_NeverRaises == []C20_TaggedResult /\ [][C20_VerifyChangesNothing]_vars

\* a body that is no JSON and a body under a forged signature were both
\* answered 400
C20_Witness ==
    \E r1, r2 \in Reqs :
        /\ Verified(r1) /\ h[r1].req.body = "not_json"
        /\ Done(r1) /\ h[r1].status = 400
        /\ Verified(r2) /\ h[r2].req.sig[1].secret = ForgedSecret
        /\ Done(r2) /\ h[r2].status = 400

\* ------------------------------------------------------------------------
\* C21
\* ------------------------------------------------------------------------
\* the branch run r is for the event of the run just before it
Rerun(r) ==
    /\ r > 1
    /\ h[r].event # "" /\ h[r].event = h[r - 1].event
    /\ Done(r - 1)

\* the branch run r threw or had a rejection swallowed
Failed(r) == h[r].status = 500 \/ h[r].faulted # ""

\* a ConnectedAccount row with its timestamp reduced to set / not set
Untimed(row) ==
    [row EXCEPT !.onboardingCompletedAt = IF @ = Nil THEN Nil ELSE Some(0)]

\* C21, the step part: when the branch of an event is run again right after
\* a run of it that completed, no step of the second run changes an Order
\* or a ConnectedAccount row, but for timestamps and for a transferId that
\* was null and that the second run learned from the charge.
C21_SecondRunChangesNothing ==
    \A r \in Reqs :
        (Rerun(r) /\ ~Failed(r - 1) /\ h'[r] # h[r]) =>
            /\ Len(order') = Len(order)
            /\ \A i \in DOMAIN order :
                  \/ order'[i] = order[i]
                  \/ /\ order[i].transferId = Nil /\ h[r].transferId # Nil
                     /\ order'[i] = [order[i] EXCEPT !.transferId = h[r].transferId]
            /\ Len(connectedAccount') = Len(connectedAccount)
            /\ \A i \in DOMAIN connectedAccount :
                  Untimed(connectedAccount'[i]) = Untimed(connectedAccount[i])

\* C21, the state part: a run of a branch that failed made no Order or
\* ConnectedAccount write, so that the run after it starts from the store
\* the failed run started from.
C21_FailedRunWroteNothing ==
    \A r \in Reqs : (Done(r) /\ Failed(r)) => h[r].writes = 0

\* C21: the branch of each event type is idempotent: run twice for the same
\* payload it leaves Order and ConnectedAccount as one run does, timestamps
\* aside.
C21_BranchIdempotent ==
    []C21_FailedRunWroteNothing /\ [][C21_SecondRunChangesNothing]_vars

\* the branch of a payment event was run twice in a row, both runs writing
C21_Witness ==
    \E r \in Reqs :
        /\ Rerun(r) /\ Done(r) /\ ~Failed(r) /\ ~Failed(r - 1)
        /\ h[r].writes = 1 /\ h[r - 1].writes = 1
        /\ IsPaymentIntentEvent(h[r].event)

\* ------------------------------------------------------------------------
\* C23
\* ------------------------------------------------------------------------
\* C23: every Order row's sellerAccountId is the id of a ConnectedAccount
\* row, and an execution whose seller lookup returned nothing wrote no
\* Order, also while ConnectedAccount rows are deleted between the lookup
\* and the upsert.
C23_SellerExists ==
    /\ \A o \in Rows(order) :
          \E a \in Rows(connectedAccount) : a.id = o.sellerAccountId
    /\ \A r \in Reqs : h[r].sellerId = Nil => h[r].writes = 0

\* the seller was found, its row was deleted before the upsert, and the
\* upsert was refused
C23_Witness ==
    \E r \in Reqs :
        /\ Done(r) /\ h[r].status = 500 /\ h[r].faulted = ""
        /\ h[r].sellerId # Nil /\ h[r].writes = 0
        /\ ~ \E a \in Rows(connectedAccount) : a.id = h[r].sellerId[1]

C25_OneRowPerEvent ==
    \A i, j \in DOMAIN webhookEvent :
        webhookEvent[i].stripeEventId = webhookEvent[j].stripeEventId => i = j

\* C25, the step part: no step removes a ledger row or changes the event id,
\* type or payload of one, and a processedAt that is set stays as it is.
C25_RowsKept ==
    /\ Len(webhookEvent') >= Len(webhookEvent)
    /\ \A i \in DOMAIN webhookEvent :
          /\ webhookEvent'[i].stripeEventId = webhookEvent[i].stripeEventId
          /\ webhookEvent'[i].type = webhookEvent[i].type
          /\ webhookEvent'[i].payload = webhookEvent[i].payload
          /\ webhookEvent[i].processedAt # Nil =>
                webhookEvent'[i].processedAt = webhookEvent[i].processedAt

\* C25: the WebhookEvent ledger is append-only: one row per event id, no row
\* deleted, type and payload fixed at creation, processedAt set at most once.
C25_AppendOnly == []C25_OneRowPerEvent /\ [][C25_RowsKept]_vars

\* two events were processed one after the other and a third row waits
C25_Witness ==
    \E i, j \in DOMAIN webhookEvent :
        /\ webhookEvent[i].processedAt # Nil /\ webhookEvent[j].processedAt # Nil
        /\ webhookEvent[i].processedAt[1] < webhookEvent[j].processedAt[1]

\* ------------------------------------------------------------------------
\* C26
\* ------------------------------------------------------------------------
\* the step in which execution r sends its response
Responds(r) == h[r].pc # "done" /\ h'[r].pc = "done"

\* C26: in the state in which the handler answers 200 "received" for event
\* e the ledger row of e has processedAt set; in the state in which it
\* answers 500 "Webhook processing failed" the row exists with processedAt
\* unset.
C26_Agree ==
    \A r \in Reqs :
        LET rows == {i \in DOMAIN webhookEvent' :
                        webhookEvent'[i].stripeEventId = h[r].event}
        IN  /\ (Responds(r) /\ h'[r].body = "received") =>
                  /\ h'[r].status = 200
                  /\ rows # {}
                  /\ \A i \in rows : webhookEvent'[i].processedAt # Nil
            /\ (Responds(r) /\ h'[r].body = "Webhook processing failed") =>
                  /\ h'[r].status = 500
                  /\ rows # {}
                  /\ \A i \in rows : webhookEvent'[i].processedAt = Nil

C26_ResponseAndLedgerAgree == [][C26_Agree]_vars

\* an acknowledged event next to one whose Order upsert was rejected
C26_Witness ==
    \E r1, r2 \in Reqs :
        /\ Done(r1) /\ h[r1].status = 200 /\ h[r1].body = "received"
        /\ Done(r2) /\ h[r2].status = 500 /\ h[r2].faulted = "orderUpsert"
        /\ LedgerRows(h[r2].event) # {}

\* ------------------------------------------------------------------------
\* C27
\* ------------------------------------------------------------------------
\* C27: an upsert that hits an existing Order leaves its sellerAccountId,
\* buyerId, checkoutSessionId, chargeId and amountRefunded as they were, its
\* transferId too when the charge gave no transfer id, and changes no other
\* Order row.
C27_UpsertFrame ==
    \A r \in Reqs :
        LET pi == Events[h[r].event].object
        IN  (/\ Takes(r, "orderUpsert") /\ h'[r].pc = "mark"
             /\ OrdersOf(pi.id) # {}) =>
               /\ Len(order') = Len(order)
               /\ \A i \in DOMAIN order :
                     IF order[i].paymentIntentId = pi.id
                     THEN /\ order'[i].sellerAccountId = order[i].sellerAccountId
                          /\ order'[i].buyerId = order[i].buyerId
                          /\ order'[i].checkoutSessionId = order[i].checkoutSessionId
                          /\ order'[i].chargeId = order[i].chargeId
                          /\ order'[i].amountRefunded = order[i].amountRefunded
                          /\ h[r].transferId = Nil =>
                                order'[i].transferId = order[i].transferId
                     ELSE order'[i] = order[i]

C27_UpsertKeepsColumns == [][C27_UpsertFrame]_vars

\* the Order of pi_1 was created with a transfer id and a later payment event
\* without a charge rewrote its amount
C27_Witness ==
    \E i \in OrdersOf("pi_1") :
        /\ order[i].transferId = Some("tr_1") /\ order[i].amount = 500
        /\ \E r \in Reqs : h[r].event = "evt_pi_b" /\ h[r].writes = 1 /\ Done(r)

\* ------------------------------------------------------------------------
\* C28
\* ------------------------------------------------------------------------
\* C28: after any sequence of create-account requests, get-account-status
\* syncs and account.updated events, every ConnectedAccount row has
\* onboardingCompletedAt set exactly when detailsSubmitted is true.
C28_OnboardedIffSubmitted ==
    \A a \in Rows(connectedAccount) :
        (a.onboardingCompletedAt # Nil) <=> a.detailsSubmitted

\* an account.updated event withdrew the details of the onboarded seller, a
\* sync found the other seller onboarded, and create-account added a row
C28_Witness ==
    /\ \E a \in Rows(connectedAccount) :
          a.stripeAccountId = "acct_2" /\ ~a.detailsSubmitted
    /\ \E a \in Rows(connectedAccount) :
          a.stripeAccountId = "acct_1" /\ a.detailsSubmitted
    /\ \E r \in SyncReqs : gs[r].pc = "done" /\ gs[r].status = 200
    /\ Len(connectedAccount) = 3

\* ------------------------------------------------------------------------
\* C22, C29, C30: the payment-creating endpoints and the webhook consumer
\* ------------------------------------------------------------------------
\* the Order rows of payment k
OrdersOfPayment(k) == {o \in Rows(order) : o.paymentIntentId = payments[k].id}

\* the buyer the request of payment k named: none when the body carried no
\* buyerId or an empty one
BuyerAsked(k) ==
    IF payments[k].asked \in {Nil, Some("")} THEN Nil ELSE payments[k].asked

\* C22: for every payment-creating endpoint, the Order made from a payment's
\* payment_intent.succeeded event has buyerId null when the payment was
\* created without a buyerId, and has that buyerId when it was created with
\* one.
C22_BuyerAgrees ==
    \A k \in DOMAIN payments :
        \A o \in OrdersOfPayment(k) : o.buyerId = BuyerAsked(k)

\* C29: the Order made from a payment's payment_intent.succeeded event has
\* platformFee equal to the application fee F the payment was created with
\* (written to metadata.platformFee as String(F)), and platformFee 0 when
\* the payment's metadata has no platformFee key.
C29_FeeRoundTrip ==
    \A k \in DOMAIN payments :
        /\ payments[k].pi.metadata.platformFee =
              (IF payments[k].fee = Nil THEN Nil
               ELSE Some(StringOf(payments[k].fee[1])))
        /\ \A o \in OrdersOfPayment(k) :
              o.platformFee = Coalesce(payments[k].fee, 0)

\* an Order with the three-digit fee of a checkout payment (quantity 2 at
\* 25 percent) beside the Order of the payment without the metadata key
C29_Witness ==
    /\ \E k \in DOMAIN payments :
          /\ payments[k].endpoint = "checkout"
          /\ payments[k].fee = Some(500)
          /\ \E o \in OrdersOfPayment(k) : o.platformFee = 500
    /\ \E k \in DOMAIN payments :
          /\ payments[k].pi.metadata.platformFee = Nil
          /\ \E o \in OrdersOfPayment(k) : o.platformFee = 0

\* the executions of the checkout endpoint, in either revision
CheckoutRuns == {r \in PayReqs : co[r].req.endpoint \in {"checkout", "part_004"}}

\* the sessions execution r created
SessionsOf(r) == {k \in DOMAIN payments : payments[k].by = r}

\* the calls an execution makes up to the session's creation: the lookup of
\* the seller's row only when the body names no account id
CallsToCreate(r) ==
    <<"safeParse">>
    \o (IF co[r].req.body.stripeAccountId = Nil THEN <<"findFirst">> ELSE <<>>)
    \o <<"accountsRetrieve", "pricesRetrieve", "sessionsCreate">>

\* the account id of execution r is the one its body names or that of a
\* ConnectedAccount row of the body's userId
SellerResolved(r) ==
    IF co[r].req.body.stripeAccountId # Nil
    THEN co[r].sellerAcct = co[r].req.body.stripeAccountId[1]
    ELSE \E a \in Rows(connectedAccount) :
            /\ Some(a.userId) = co[r].req.body.userId
            /\ a.stripeAccountId = co[r].sellerAcct

\* a session exists only for an execution that validated the body, resolved
\* the seller, saw charges_enabled and saw a price with amount and currency,
\* calling in that order
C30_CreatedAfterChecks ==
    \A r \in CheckoutRuns :
        SessionsOf(r) # {} =>
            /\ Cardinality(SessionsOf(r)) = 1
            /\ co[r].status = 201
            /\ co[r].calls = CallsToCreate(r)
            /\ CreateCheckoutSessionSchema(co[r].req.body).success
            /\ SellerResolved(r)
            /\ co[r].account # Nil
            /\ co[r].account[1].id = co[r].sellerAcct
            /\ co[r].account[1].charges_enabled = Some(TRUE)
            /\ co[r].price # Nil
            /\ Coalesce(co[r].price[1].unit_amount, 0) # 0
            /\ co[r].price[1].currency # Nil

\* each rejection follows the check that failed, with no call after it
C30_RejectedAtCheck ==
    \A r \in CheckoutRuns :
        co[r].pc = "done" =>
            /\ co[r].status = 201 => SessionsOf(r) # {}
            /\ co[r].status = 400 =>
                  /\ co[r].calls = <<"safeParse">>
                  /\ ~CreateCheckoutSessionSchema(co[r].req.body).success
            /\ co[r].status = 404 =>
                  /\ co[r].calls = <<"safeParse", "findFirst">>
                  /\ ~ \E a \in Rows(connectedAccount) :
                          Some(a.userId) = co[r].req.body.userId
            /\ co[r].status = 409 =>
                  /\ co[r].calls[Len(co[r].calls)] = "accountsRetrieve"
                  /\ co[r].account[1].charges_enabled # Some(TRUE)
            /\ co[r].status = 422 =>
                  /\ co[r].calls[Len(co[r].calls)] = "pricesRetrieve"
                  /\ \/ Coalesce(co[r].price[1].unit_amount, 0) = 0
                     \/ co[r].price[1].currency = Nil
            /\ co[r].status # 201 => SessionsOf(r) = {}

\* C30: the checkout endpoint creates a session only after the body
\* validated, the seller account id was resolved (404 and no provider call
\* when the userId has no ConnectedAccount row), the provider reported
\* charges_enabled (409 otherwise) and the price had an amount and a currency
\* (422 otherwise), in this order; a rejected request creates no session.
C30_SessionAfterChecks == C30_CreatedAfterChecks /\ C30_RejectedAtCheck

\* a session created by an execution that looked the seller up by userId
C30_Witness ==
    \E r \in CheckoutRuns :
        /\ co[r].status = 201
        /\ co[r].calls =
              <<"safeParse", "findFirst", "accountsRetrieve", "pricesRetrieve",
                "sessionsCreate">>
        /\ Cardinality(SessionsOf(r)) = 1

====
